---- MODULE Spec2Model ----
(***************************************************************************)
(* Signing orchestration of build-scripts: the CD Signer HTTP client       *)
(* (cd_signer_request) and the signing workflow built on it.  The workflow *)
(* is cd_sign_file of signing.py; sign_executable of qchatbuild.py has the *)
(* same client, the same requests and the same polling loop, and differs   *)
(* in the steps after the download.                                        *)
(*                                                                         *)
(* Time is the value of time.time() in whole seconds, counted from the     *)
(* moment the modelled function is entered.  time.sleep(n) advances it by  *)
(* n; every external operation (a subprocess, an HTTP round trip) advances *)
(* it by a latency the environment chooses.                                *)
(***************************************************************************)
EXTENDS Integers, Sequences, FiniteSets, TLC

----------------------------------------------------------------------------
(* Bounds of the environment *)

\* longest time, in seconds, one external operation takes
MaxLatency == 1

\* runs of the signing workflow against one bucket
MaxRuns == 2

\* the service throttles one call of a workflow run, with at most this many
\* 429 responses
MaxThrottled == 7

\* longest run of 429 responses the service answers one bare call with
ClientThrottled == 8

\* runs of the pipeline over one working tree: one run and its re-runs
MaxAttempts == 2

----------------------------------------------------------------------------
(* Program constants *)

\* for i in range(1, 8)
RangeStart == 1
RangeStop == 8

\* if response.status_code == 429
TooManyRequests == 429

\* max_duration = 180
max_duration == 180

\* time.sleep(2) between two polls
PollSleep == 2

----------------------------------------------------------------------------
(* The service, as the client sees it *)

\* status codes the service answers with: success, throttling, another 4xx,
\* a 5xx
StatusCodes == {200, 400, 429, 500}

\* status strings the workflow names, and two it does not
KnownIntermediate == {"created", "processing", "inProgress"}
UnknownStatuses == {"queued", "Success"}
Statuses == {"success", "failure"} \cup KnownIntermediate \cup UnknownStatuses

\* bodies by request: create answers a JSON object with signingRequestId,
\* start answers text, status answers a JSON object with
\* signingRequest.status; an error response of create or status carries a
\* JSON object without that key, and a 200 response may lack it too
NoId == "no_id"
WithId == "id"
NoStatus == "no_status"
Bodies(kind, code) ==
    CASE kind = "create" ->
            IF code = 200 THEN {WithId, NoId} ELSE {NoId}
      [] kind = "start" -> {"text"}
      [] kind = "status" ->
            IF code = 200 THEN Statuses \cup {NoStatus} ELSE {NoStatus}

NoResponse == [code |-> 0, body |-> "none"]

\* what a path can hold: a regular file, a directory, or something that is
\* neither (nothing, a dangling link, a device)
PathKinds == {"file", "dir", "other"}

\* no Payload directory in the working directory
NoPayload == [exists |-> FALSE, children |-> <<>>]

Latency == 0..MaxLatency

VARIABLES
    pc,         \* position in the workflow function
    rpc,        \* position in cd_signer_request: idle, attempt, backoff, returned, raised
    i,          \* loop variable of cd_signer_request
    response,   \* the response of the last HTTP request
    now,        \* time.time()
    end_time,   \* end_time of the polling loop, -1 before it is set
    status,     \* status of this iteration of the polling loop, "" before its poll
    request_id, \* request_id of the workflow, "" before create returned
    outcome,    \* how the function ended: none, signed, or the error raised
    throttle,   \* 429 responses the service may still send
    reqCount,   \* HTTP requests sent by the current call of cd_signer_request
    n429,       \* 429 responses received by the current call
    sleepTotal, \* seconds passed to time.sleep by the current call
    issued,     \* the workflow steps begun so far: commands run, requests sent
    log,        \* the workflow steps completed so far, in order
    artifact,   \* what lies at the path of the artifact to sign
    payload,    \* the Payload directory: whether it exists, the kinds of its children
    startCode,  \* status code of the start response until the next response is parsed, 0 otherwise
    wpc,        \* per workflow sharing the bucket: its position, idle between runs
    wid,        \* per workflow: request_id of its run, 0 before create returned
    wrun,       \* per workflow: the number of its run, 0 before its first
    runs,       \* runs begun so far
    nextId,     \* the id the signing service hands out next
    remote,     \* per request id: the state of the request at the service
    input,      \* per request id: the package the service read for it, 0 if none
    preSigned,  \* pre-signed/package.tar.gz: the run that uploaded it, 0 if absent
    signedZip,  \* signed/signed.zip: the request it was written for and the package signed
    got,        \* per workflow: the signed.zip its run downloaded
    creates,    \* per workflow: create requests sent by its run
    usedIds,    \* per workflow: ids its run passed to start and status requests
    oldIds,     \* ids returned to runs that are over
    clobbered,  \* workflows whose package another workflow's wipe removed before the service read it
    nclient,    \* what is notarized: an app or a dmg by apple_notarize_file, an exe by notarize_executable
    npc,        \* position in the notarization function
    zipFile,    \* the zip submitted for an app or an exe: absent, stale (left by an earlier call) or made
    nstatus,    \* the status the notary service reported, "" before the submission
    stapled,    \* xcrun stapler staple has been run
    later,      \* the caller has gone on to its next step
    nlog,       \* the statements of the notarization run so far, in order
    gpipe,      \* the pipeline that loads the signer: build_linux_minimal or the build of qchatbuild
    gconf,      \* arguments of the build: stage_name, run_test, run_lints
    gpc,        \* position in the pipeline
    gfmt,       \* index of the archive format being built, 0 outside the archive steps
    gpgHome,    \* the directory ~/.gnupg-tmp exists
    keyFiles,   \* the files in ~/.gnupg-tmp
    signer,     \* the signer variable of the pipeline: unset, none or built
    constructed,\* GpgSigner.__init__ has been entered
    signatures, \* files signed by sign_file so far
    kdir,       \* ~/.gnupg-tmp exists, seen by all GpgSigner sessions of the user
    kmode,      \* the permission bits of ~/.gnupg-tmp
    kfiles,     \* per file in ~/.gnupg-tmp: the session that wrote it last, 0 if absent
    kpc,        \* per session: its position
    kumask,     \* the umask of the processes
    found,      \* sessions that found key material of another session in their directory
    robbed,     \* sessions whose keyring another session's clean() removed while they were live
    bscript,    \* the build script that runs: desktop (build.py) or chat (qchatbuild.py)
    bplatform,  \* platform.system()
    benv,       \* the arguments and environment variables the build reads
    bpc,        \* position in the build: the index of the next step
    bstate,     \* the build is running, has returned or has raised
    signing_data, \* signing_data of build: unset, none or data
    bsigner,    \* the GpgSigner of the build: unset, none or built
    events,     \* the steps of the build completed so far, in order
    began,      \* the steps of the build begun so far
    archives,   \* the final archives in the build directory
    bstage,     \* stage_name of the build
    bundle,     \* the executables embedded in the macOS application bundle
    sflow,      \* the signing step that runs: cd_sign_file of an app or a dmg, sign_executable, rebundle_dmg
    spc,        \* the index of its next statement
    sstate,     \* the step is running, has returned, has raised or was killed
    sattempt,   \* the number of the pipeline run the step belongs to
    sfiles,     \* the paths and bucket objects that exist
    sdone,      \* the statements completed in this run of the step
    collided,   \* a statement has raised because what it writes existed already
    polls,      \* status requests the polling loop has sent
    signed_dir, \* the entries of BUILD_DIR/signed/Payload/EXECUTABLES_TO_SIGN, NoDir without the directory
    zip_dl,     \* BUILD_DIR/signed.zip exists
    signed_exe_path \* what sign_executable returned, "unset" before it returns

signVars == <<pc, rpc, i, response, now, end_time, status, request_id, outcome,
              throttle, reqCount, n429, sleepTotal, issued, log, artifact,
              payload, startCode>>

wfVars == <<pc, end_time, status, request_id, outcome, log, artifact, payload,
            startCode>>
reqVars == <<rpc, i, response, reqCount, n429, sleepTotal>>

\* the variables of the other parts of the build scripts
poolVars == <<wpc, wid, wrun, runs, nextId, remote, input, preSigned, signedZip,
              got, creates, usedIds, oldIds, clobbered>>
notaryVars == <<nclient, npc, zipFile, nstatus, stapled, later, nlog>>
gpgVars == <<gpipe, gconf, gpc, gfmt, gpgHome, keyFiles, signer, constructed,
             signatures>>

keyVars == <<kdir, kmode, kfiles, kpc, kumask, found, robbed>>

\* the variables outside the signing, bucket, notarization and pipeline models
buildVars == <<bscript, bplatform, benv, bstage, bundle, bpc, bstate,
               signing_data, bsigner,
               events, began, archives>>
stageVars == <<sflow, spc, sstate, sattempt, sfiles, sdone, collided>>
pollVars == <<polls>>
exeVars == <<signed_dir, zip_dl, signed_exe_path>>
restVars == <<keyVars, buildVars, stageVars, pollVars, exeVars>>

outsideSigning == <<poolVars, notaryVars, gpgVars, restVars>>

vars == <<signVars, outsideSigning>>

\* the other parts of the build scripts are not running

\* the workflows that share one bucket
Workflows == {1, 2}

\* the requests the service can be asked for: one per run
RequestIds == 1..MaxRuns

\* no object under a key of the bucket, nothing downloaded
NoObject == [req |-> 0, pkg |-> 0]

\* cd_sign_file is not running
SigningIdle ==
    /\ pc = "none"
    /\ rpc = "idle"
    /\ i = RangeStart
    /\ response = NoResponse
    /\ now = 0
    /\ end_time = -1
    /\ status = ""
    /\ request_id = ""
    /\ outcome = "none"
    /\ throttle = 0
    /\ reqCount = 0
    /\ n429 = 0
    /\ sleepTotal = 0
    /\ issued = {}
    /\ log = <<>>
    /\ artifact = "absent"
    /\ payload = NoPayload
    /\ startCode = 0

\* no workflow has touched the bucket
PoolIdle ==
    /\ wpc = [w \in Workflows |-> "idle"]
    /\ wid = [w \in Workflows |-> 0]
    /\ wrun = [w \in Workflows |-> 0]
    /\ runs = 0
    /\ nextId = 1
    /\ remote = [r \in RequestIds |-> "absent"]
    /\ input = [r \in RequestIds |-> 0]
    /\ preSigned = 0
    /\ signedZip = NoObject
    /\ got = [w \in Workflows |-> NoObject]
    /\ creates = [w \in Workflows |-> 0]
    /\ usedIds = [w \in Workflows |-> {}]
    /\ oldIds = {}
    /\ clobbered = {}

\* no notarization is running
NotaryIdle ==
    /\ nclient = "none"
    /\ npc = "idle"
    /\ zipFile = "absent"
    /\ nstatus = ""
    /\ stapled = FALSE
    /\ later = FALSE
    /\ nlog = <<>>

\* no pipeline has loaded a signer
GpgIdle ==
    /\ gpipe = "none"
    /\ gconf = [stage |-> "None", run_test |-> FALSE, run_lints |-> FALSE]
    /\ gpc = "idle"
    /\ gfmt = 0
    /\ gpgHome = FALSE
    /\ keyFiles = {}
    /\ signer = "unset"
    /\ constructed = FALSE
    /\ signatures = 0

\* the GpgSigner sessions of one user
Sessions == {1, 2}

\* the files a session keeps in its directory
KeyFileNames == {"gpg_secret", "gpg_pass", "keyring"}

\* no GpgSigner session has been constructed
KeyIdle ==
    /\ kdir = FALSE
    /\ kmode = {}
    /\ kfiles = [f \in KeyFileNames |-> 0]
    /\ kpc = [s \in Sessions |-> "idle"]
    /\ kumask = {}
    /\ found = {}
    /\ robbed = {}

\* the arguments and environment variables of the two build scripts
RemoteNames == {"bucket", "account", "secret", "role"}
GpgNames == {"test_id", "test_key", "test_pass", "arn"}
EnvNames == RemoteNames \cup GpgNames \cup {"output", "disable"}

\* no build is running
BuildIdle ==
    /\ bscript = "none"
    /\ bplatform = "none"
    /\ benv = [n \in EnvNames |-> "unset"]
    /\ bstage = "none"
    /\ bundle = {}
    /\ bpc = 0
    /\ bstate = "idle"
    /\ signing_data = "unset"
    /\ bsigner = "unset"
    /\ events = <<>>
    /\ began = {}
    /\ archives = {}

\* no signing step has touched the staging trees
StageIdle ==
    /\ sflow = "none"
    /\ spc = 0
    /\ sstate = "idle"
    /\ sattempt = 0
    /\ sfiles = {}
    /\ sdone = {}
    /\ collided = FALSE

\* no polling loop has been counted
PollIdle == polls = 0

\* the absence of a directory
NoDir == [exists |-> FALSE, entries |-> {}]

\* a directory that holds the entries es
Dir(es) == [exists |-> TRUE, entries |-> es]

\* sign_executable has not run
ExeIdle ==
    /\ signed_dir = NoDir
    /\ zip_dl = FALSE
    /\ signed_exe_path = "unset"

TailIdle == PollIdle /\ ExeIdle

RestIdle == KeyIdle /\ BuildIdle /\ StageIdle /\ TailIdle

OutsideSigningIdle == PoolIdle /\ NotaryIdle /\ GpgIdle /\ RestIdle

outsidePool == <<signVars, notaryVars, gpgVars, restVars>>
outsideNotary == <<signVars, poolVars, gpgVars, restVars>>
outsideGpg == <<signVars, poolVars, notaryVars, restVars>>
outsideKey == <<signVars, poolVars, notaryVars, gpgVars, buildVars, stageVars,
                pollVars, exeVars>>
outsideBuild == <<signVars, poolVars, notaryVars, gpgVars, keyVars, stageVars,
                  pollVars, exeVars>>
outsideStage == <<signVars, poolVars, notaryVars, gpgVars, keyVars, buildVars,
                  pollVars, exeVars>>
outsidePoll == <<poolVars, notaryVars, gpgVars, keyVars, buildVars, stageVars,
                 exeVars>>
outsideExe == <<poolVars, notaryVars, gpgVars, keyVars, buildVars, stageVars,
                pollVars>>

----------------------------------------------------------------------------
(* cd_signer_request *)

\* 2 ** i
RECURSIVE Pow2(_)
Pow2(n) == IF n = 0 THEN 1 ELSE 2 * Pow2(n - 1)

\* the argument of time.sleep after a 429 on attempt k
BackoffFromZero(k) == Pow2(k - 1)
Backoff(k) == Pow2(k)

\* the values of range(1, 8)
AttemptsOneFewer == RangeStart..(RangeStop - 2)
AttemptsOneMore == RangeStart..RangeStop
Attempts == RangeStart..(RangeStop - 1)

\* the test that sends the loop to its backoff branch
IsThrottledAny4xx(code) == code >= 400 /\ code < 500
IsThrottled(code) == code = TooManyRequests

\* the request kind the workflow position pc asks for
KindOf(p) ==
    CASE p = "create" -> "create"
      [] p = "start" -> "start"
      [] p = "poll" -> "status"
      [] OTHER -> "none"

\* entry of cd_signer_request up to the first iteration of its loop
EnterRequest ==
    /\ rpc' = "attempt"
    /\ i' = RangeStart
    /\ response' = NoResponse
    /\ reqCount' = 0
    /\ n429' = 0
    /\ sleepTotal' = 0

\* one iteration up to the test of the status code: requests.request(...).
\* The service answers 429 at most throttle more times, all of them to one
\* call; a scripted service answers 429 exactly throttle more times.
AttemptOf(scripted) ==
    /\ rpc = "attempt"
    /\ KindOf(pc) # "none"
    /\ \E code \in StatusCodes, d \in Latency :
       \E body \in Bodies(KindOf(pc), code) :
          /\ code = TooManyRequests => throttle > 0
          /\ scripted /\ throttle > 0 => code = TooManyRequests
          /\ response' = [code |-> code, body |-> body]
          /\ throttle' = CASE code = TooManyRequests -> throttle - 1
                            [] code # TooManyRequests /\ n429 > 0 -> 0
                            [] OTHER -> throttle
          /\ n429' = IF code = TooManyRequests THEN n429 + 1 ELSE n429
          /\ now' = now + d
          /\ rpc' = IF IsThrottled(code) THEN "backoff" ELSE "returned"
    /\ reqCount' = reqCount + 1
    /\ issued' = issued \cup {pc}
    /\ UNCHANGED <<i, sleepTotal>>
    /\ UNCHANGED wfVars
    /\ UNCHANGED outsideSigning

Attempt == AttemptOf(FALSE)

ScriptedAttempt == AttemptOf(TRUE)

\* the 429 branch: time.sleep(2 ** i), continue; the loop ends after the
\* last value of the range and the function raises
BackoffStep ==
    /\ rpc = "backoff"
    /\ now' = now + Backoff(i)
    /\ sleepTotal' = sleepTotal + Backoff(i)
    /\ i' = i + 1
    /\ rpc' = IF i + 1 \in Attempts THEN "attempt" ELSE "raised"
    /\ UNCHANGED <<response, throttle, reqCount, n429, issued>>
    /\ UNCHANGED wfVars
    /\ UNCHANGED outsideSigning

\* the call is over: its locals are gone
LeaveRequest ==
    /\ rpc' = "idle"
    /\ i' = RangeStart
    /\ response' = NoResponse
    /\ reqCount' = 0
    /\ n429' = 0
    /\ sleepTotal' = 0

----------------------------------------------------------------------------
(* A bare call of cd_signer_request, for each of its three callers *)

ClientInit ==
    /\ pc \in {"create", "start", "poll"}
    /\ rpc = "attempt"
    /\ i = RangeStart
    /\ response = NoResponse
    /\ now = 0
    /\ end_time = -1
    /\ status = ""
    /\ request_id = ""
    /\ outcome = "none"
    /\ throttle \in 0..ClientThrottled
    /\ reqCount = 0
    /\ n429 = 0
    /\ sleepTotal = 0
    /\ issued = {}
    /\ log = <<>>
    /\ artifact = "absent"
    /\ payload = NoPayload
    /\ startCode = 0
    /\ OutsideSigningIdle

ClientNext == ScriptedAttempt \/ BackoffStep

ClientSpec == ClientInit /\ [][ClientNext]_vars

----------------------------------------------------------------------------
(* cd_sign_file / sign_executable *)

\* most children the unpacked Payload directory is given
MaxChildren == 2

\* the statement that follows each step of the function body when the step
\* did not raise
AfterUploadFirst(step) ==
    CASE step = "package" -> "upload"
      [] step = "upload" -> "wipe_signed"
      [] step = "wipe_signed" -> "wipe_presigned"
      [] step = "wipe_presigned" -> "create"
      [] step = "create" -> "start"
      [] step = "start" -> "poll"
      [] step = "download" -> "unzip"
      [] step = "unzip" -> "install"
      [] step = "install" -> "verify"
      [] step = "verify" -> "done"
After(step) ==
    CASE step = "package" -> "wipe_signed"
      [] step = "wipe_signed" -> "wipe_presigned"
      [] step = "wipe_presigned" -> "upload"
      [] step = "upload" -> "create"
      [] step = "create" -> "start"
      [] step = "start" -> "poll"
      [] step = "download" -> "unzip"
      [] step = "unzip" -> "install"
      [] step = "install" -> "verify"
      [] step = "verify" -> "done"

\* end_time = time.time() + max_duration, t being time.time() at that line
EndTimeFromEntry(t) == 0 + max_duration
EndTime(t) == t + max_duration

\* the arm of the match statement a status takes
MatchStatusUnknownBreaks(s) ==
    CASE s = "success" -> "break"
      [] s \in {"created", "processing", "inProgress"} -> "pass"
      [] s = "failure" -> "raise"
      [] OTHER -> "break"
MatchStatusFailurePasses(s) ==
    CASE s = "success" -> "break"
      [] s \in {"created", "processing", "inProgress", "failure"} -> "pass"
      [] OTHER -> "warn"
MatchStatusSuccessPasses(s) ==
    CASE s \in {"created", "processing", "inProgress", "success"} -> "pass"
      [] s = "failure" -> "raise"
      [] OTHER -> "warn"
MatchStatus(s) ==
    CASE s = "success" -> "break"
      [] s \in {"created", "processing", "inProgress"} -> "pass"
      [] s = "failure" -> "raise"
      [] OTHER -> "warn"

\* if time.time() >= end_time
DeadlinePassedStrict(t, e) == t > e
DeadlinePassed(t, e) == t >= e

\* control moves to the statement at position p; a position that is a
\* request enters cd_signer_request
Goto(p) ==
    /\ pc' = p
    /\ outcome' = IF p = "done" THEN "signed" ELSE outcome
    /\ IF KindOf(p) # "none" THEN EnterRequest ELSE LeaveRequest

\* an exception leaves the function
Raise(error) ==
    /\ pc' = "raised"
    /\ outcome' = error
    /\ LeaveRequest

\* run_cmd(...) with check=True: subprocess.run raises on a non-zero exit
RunCmdUnchecked(step) ==
    /\ pc = step
    /\ issued' = issued \cup {step}
    /\ \E ok \in BOOLEAN, d \in Latency :
          /\ now' = now + d
          /\ Goto(After(step))
          /\ log' = IF ok THEN Append(log, step) ELSE log
    /\ UNCHANGED <<end_time, status, request_id, throttle, artifact, payload,
                   startCode>>
    /\ UNCHANGED outsideSigning
RunCmd(step) ==
    /\ pc = step
    /\ issued' = issued \cup {step}
    /\ \E ok \in BOOLEAN, d \in Latency :
          /\ now' = now + d
          /\ IF ok
               THEN Goto(After(step)) /\ log' = Append(log, step)
               ELSE Raise("command_failed") /\ log' = log
    /\ UNCHANGED <<end_time, status, request_id, throttle, artifact, payload,
                   startCode>>
    /\ UNCHANGED outsideSigning

\* cd_build_signed_package: the artifact is copied into the staging
\* directory and removed from its path, then packed by two gtar commands;
\* a path that is neither a directory nor a file raises
PackageKeepsOriginal ==
    /\ pc = "package"
    /\ issued' = issued \cup {"package"}
    /\ \E d \in Latency, result \in {"copy_failed", "gtar_failed", "packed"} :
          /\ now' = now + d
          /\ CASE artifact \notin {"file", "dir"} ->
                    /\ Raise("unknown_file_type")
                    /\ UNCHANGED <<artifact, log>>
               [] artifact \in {"file", "dir"} /\ result = "copy_failed" ->
                    /\ Raise("copy_failed")
                    /\ UNCHANGED <<artifact, log>>
               [] artifact \in {"file", "dir"} /\ result = "gtar_failed" ->
                    /\ Raise("command_failed")
                    /\ artifact' = artifact
                    /\ log' = log
               [] OTHER ->
                    /\ Goto(After("package"))
                    /\ artifact' = artifact
                    /\ log' = Append(log, "package")
    /\ UNCHANGED <<end_time, status, request_id, throttle, payload, startCode>>
    /\ UNCHANGED outsideSigning

Package ==
    /\ pc = "package"
    /\ issued' = issued \cup {"package"}
    /\ \E d \in Latency, result \in {"copy_failed", "gtar_failed", "packed"} :
          /\ now' = now + d
          /\ CASE artifact \notin {"file", "dir"} ->
                    /\ Raise("unknown_file_type")
                    /\ UNCHANGED <<artifact, log>>
               [] artifact \in {"file", "dir"} /\ result = "copy_failed" ->
                    /\ Raise("copy_failed")
                    /\ UNCHANGED <<artifact, log>>
               [] artifact \in {"file", "dir"} /\ result = "gtar_failed" ->
                    /\ Raise("command_failed")
                    /\ artifact' = "absent"
                    /\ log' = log
               [] OTHER ->
                    /\ Goto(After("package"))
                    /\ artifact' = "absent"
                    /\ log' = Append(log, "package")
    /\ UNCHANGED <<end_time, status, request_id, throttle, payload, startCode>>
    /\ UNCHANGED outsideSigning

\* aws s3 rm --recursive s3://bucket/signed
WipeSigned == RunCmd("wipe_signed")

\* aws s3 rm --recursive s3://bucket/pre-signed
WipePreSigned == RunCmd("wipe_presigned")

\* aws s3 cp package.tar.gz s3://bucket/pre-signed/package.tar.gz
Upload == RunCmd("upload")

\* cd_signer_request raised: the exception leaves the workflow
RequestFailed ==
    /\ rpc = "raised"
    /\ pc \in {"create", "start", "poll"}
    /\ Raise("request_failed")
    /\ UNCHANGED <<now, end_time, status, request_id, throttle, issued, log,
                   artifact, payload, startCode>>
    /\ UNCHANGED outsideSigning

\* what the caller of cd_signer_request does with the response: create reads
\* response.json()["signingRequestId"], start reads response.text, status
\* reads response.json()["signingRequest"]["status"]; a missing key raises
ParsesStartStrict(kind, resp) ==
    CASE kind = "create" -> resp.body = WithId
      [] kind = "start" -> resp.code = 200
      [] kind = "status" -> resp.body # NoStatus
ParsesCreateLenient(kind, resp) ==
    CASE kind = "create" -> TRUE
      [] kind = "start" -> TRUE
      [] kind = "status" -> resp.body # NoStatus
Parses(kind, resp) ==
    CASE kind = "create" -> resp.body = WithId
      [] kind = "start" -> TRUE
      [] kind = "status" -> resp.body # NoStatus

\* the signingRequestId of a create response, "" when it has none
IdOf(body) == IF body = WithId THEN "id" ELSE ""

\* cd_signer_create_request after cd_signer_request returned:
\* response.json()["signingRequestId"]
CreateReturned ==
    /\ pc = "create"
    /\ rpc = "returned"
    /\ IF Parses("create", response)
         THEN /\ request_id' = IdOf(response.body)
              /\ log' = Append(log, "create")
              /\ Goto(After("create"))
         ELSE /\ Raise("bad_response")
              /\ UNCHANGED <<request_id, log>>
    /\ UNCHANGED <<now, end_time, status, throttle, issued, artifact, payload,
                   startCode>>
    /\ UNCHANGED outsideSigning

\* cd_signer_start_request after cd_signer_request returned: the text is
\* logged; then max_duration, end_time and i of the polling loop are set
StartReturned ==
    /\ pc = "start"
    /\ rpc = "returned"
    /\ startCode' = response.code
    /\ IF Parses("start", response)
         THEN /\ log' = Append(log, "start")
              /\ end_time' = EndTime(now)
              /\ Goto(After("start"))
         ELSE /\ Raise("bad_response")
              /\ UNCHANGED <<end_time, log>>
    /\ UNCHANGED <<now, status, request_id, throttle, issued, artifact, payload>>
    /\ UNCHANGED outsideSigning

\* cd_signer_status_request after cd_signer_request returned:
\* response.json()["signingRequest"]["status"]
StatusReturned ==
    /\ pc = "poll"
    /\ rpc = "returned"
    /\ startCode' = 0
    /\ IF Parses("status", response)
         THEN /\ status' = response.body
              /\ log' = IF Len(log) > 0 /\ log[Len(log)] = "poll"
                          THEN log ELSE Append(log, "poll")
              /\ pc' = "match"
              /\ outcome' = outcome
              /\ LeaveRequest
         ELSE /\ Raise("bad_response")
              /\ UNCHANGED <<status, log>>
    /\ UNCHANGED <<now, end_time, request_id, throttle, issued, artifact,
                   payload>>
    /\ UNCHANGED outsideSigning

\* match status
MatchDeadlineFirst ==
    /\ pc = "match"
    /\ CASE DeadlinePassed(now, end_time) -> Raise("timeout")
         [] MatchStatus(status) = "break" -> Goto("download")
         [] MatchStatus(status) = "raise" -> Raise("failure")
         [] OTHER -> Goto("deadline")
    /\ UNCHANGED <<now, end_time, status, request_id, throttle, issued, log,
                   artifact, payload, startCode>>
    /\ UNCHANGED outsideSigning
Match ==
    /\ pc = "match"
    /\ CASE MatchStatus(status) = "break" -> Goto("download")
         [] MatchStatus(status) = "raise" -> Raise("failure")
         [] OTHER -> Goto("deadline")
    /\ UNCHANGED <<now, end_time, status, request_id, throttle, issued, log,
                   artifact, payload, startCode>>
    /\ UNCHANGED outsideSigning

\* the rest of the loop body: the deadline test, time.sleep(2), i += 1.
\* The next iteration assigns status before it reads it, so the value of
\* this iteration is dropped here.
Deadline ==
    /\ pc = "deadline"
    /\ IF DeadlinePassed(now, end_time)
         THEN /\ Raise("timeout")
              /\ now' = now
              /\ status' = status
         ELSE /\ now' = now + PollSleep
              /\ Goto("poll")
              /\ status' = ""
    /\ UNCHANGED <<end_time, request_id, throttle, issued, log, artifact,
                   payload, startCode>>
    /\ UNCHANGED outsideSigning

\* aws s3 cp s3://bucket/signed/signed.zip signed.zip
Download == RunCmd("download")

\* the children an archive can unpack into the Payload directory
ChildrenSeqs == UNION {[1..n -> PathKinds] : n \in 0..MaxChildren}

\* unzip signed.zip
Unzip ==
    /\ pc = "unzip"
    /\ issued' = issued \cup {"unzip"}
    /\ \E ok \in BOOLEAN, d \in Latency, c \in ChildrenSeqs :
          /\ now' = now + d
          /\ IF ok
               THEN /\ payload' = [exists |-> TRUE, children |-> c]
                    /\ Goto(After("unzip"))
                    /\ log' = Append(log, "unzip")
               ELSE /\ Raise("command_failed")
                    /\ UNCHANGED <<payload, log>>
    /\ UNCHANGED <<end_time, status, request_id, throttle, artifact, startCode>>
    /\ UNCHANGED outsideSigning

\* if len(children) != 1: raise
PayloadOkNonEmpty(children) == Len(children) >= 1
PayloadOk(children) == Len(children) = 1

\* the single child of Payload is copied to the original location, a
\* directory by copytree (which raises when the destination exists), a file
\* by copy2, anything else raises; then signed.zip and Payload are removed
Install ==
    /\ pc = "install"
    /\ issued' = issued \cup {"install"}
    /\ CASE ~PayloadOk(payload.children) ->
              /\ Raise("bad_payload")
              /\ UNCHANGED <<artifact, payload, log>>
         [] PayloadOk(payload.children) /\ payload.children[1] = "other" ->
              /\ Raise("unknown_file_type")
              /\ UNCHANGED <<artifact, payload, log>>
         [] PayloadOk(payload.children) /\ payload.children[1] = "dir"
                /\ artifact # "absent" ->
              /\ Raise("copy_failed")
              /\ UNCHANGED <<artifact, payload, log>>
         [] OTHER ->
              /\ artifact' = IF payload.children[1] = "dir"
                               THEN "signed_dir" ELSE "signed_file"
              /\ payload' = NoPayload
              /\ log' = Append(log, "install")
              /\ Goto(After("install"))
    /\ UNCHANGED <<now, end_time, status, request_id, throttle, startCode>>
    /\ UNCHANGED outsideSigning

\* codesign -dv --deep --strict file
Verify == RunCmd("verify")

Init ==
    /\ pc = "package"
    /\ rpc = "idle"
    /\ i = RangeStart
    /\ response = NoResponse
    /\ now = 0
    /\ end_time = -1
    /\ status = ""
    /\ request_id = ""
    /\ outcome = "none"
    /\ throttle = MaxThrottled
    /\ reqCount = 0
    /\ n429 = 0
    /\ sleepTotal = 0
    /\ issued = {}
    /\ log = <<>>
    /\ artifact \in PathKinds
    /\ payload = NoPayload
    /\ startCode = 0
    /\ OutsideSigningIdle

Next ==
    \/ Package
    \/ WipeSigned
    \/ WipePreSigned
    \/ Upload
    \/ Attempt
    \/ BackoffStep
    \/ RequestFailed
    \/ CreateReturned
    \/ StartReturned
    \/ StatusReturned
    \/ Match
    \/ Deadline
    \/ Download
    \/ Unzip
    \/ Install
    \/ Verify

Spec == Init /\ [][Next]_vars

\* the interpreter runs the function to its end
FairSpec == Spec /\ WF_vars(Next)

----------------------------------------------------------------------------
(* Properties of cd_signer_request, checked under ClientSpec.  There the   *)
(* service answers a call with Leading 429 responses and then with         *)
(* something else.                                                         *)

\* the number of leading 429 responses of the service's response sequence
Leading == throttle + n429

\* the call of cd_signer_request is over
CallOver == rpc \in {"returned", "raised"}

\* 2^1 + ... + 2^k
RECURSIVE SumOfPowers(_)
SumOfPowers(k) == IF k <= 0 THEN 0 ELSE 2^k + SumOfPowers(k - 1)

\* C1 as stated: for every response sequence with k leading 429 responses,
\* 0 <= k <= 7, followed by a non-429 response, the call returns that
\* response and does not raise.
C1_ReturnsUpToSeven ==
    Leading <= 7 =>
        /\ rpc # "raised"
        /\ rpc = "returned" => response.code # TooManyRequests /\ n429 = Leading

\* C1 amended: for every response sequence with k leading 429 responses,
\* 0 <= k <= 6, followed by a non-429 response, the call returns that
\* response and does not raise; until it returns it can take its next step.
C1_ReturnsUpToSix ==
    Leading <= 6 =>
        /\ rpc # "raised"
        /\ rpc = "returned" => response.code # TooManyRequests /\ n429 = Leading
        /\ rpc # "returned" => ENABLED ClientNext

C1_Witness == rpc = "returned" /\ n429 = 6 /\ response.code = 200

\* C2: when every response is 429 the call sends exactly 7 requests and then
\* raises; no call ever sends an eighth request.
C2_SevenRequestsThenRaise ==
    /\ reqCount <= 7
    /\ Leading >= 7 => rpc # "returned"
    /\ rpc = "raised" => reqCount = 7 /\ n429 = 7 /\ ~ENABLED ClientNext

C2_Witness == rpc = "raised" /\ reqCount = 7 /\ throttle > 0

\* C3: the sleep after the i-th 429 response is 2^i seconds, so the seconds
\* slept by a call that received k 429 responses are 2^1 + ... + 2^k (the
\* sleep for the last 429 received is still to come at the backoff).
C3_SleepIsSumOfPowers ==
    /\ sleepTotal = SumOfPowers(IF rpc = "backoff" THEN n429 - 1 ELSE n429)
    /\ now >= sleepTotal
    /\ now <= sleepTotal + reqCount * MaxLatency

C3_Witness == rpc = "returned" /\ n429 = 5 /\ sleepTotal = 62

\* C4: a response with a status other than 429 is returned on the attempt on
\* which it is received: the requests of the call are its leading 429
\* responses plus one, and no sleep or further request follows.
C4_Non429ReturnedAtOnce ==
    /\ response.code \notin {NoResponse.code, TooManyRequests} => rpc = "returned"
    /\ rpc = "returned" =>
          /\ response.code # TooManyRequests
          /\ reqCount = n429 + 1
          /\ sleepTotal = SumOfPowers(n429)
          /\ ~ENABLED ClientNext

C4_Witness == rpc = "returned" /\ response.code = 400 /\ n429 = 2

----------------------------------------------------------------------------
(* Properties of the signing workflow, checked under Spec and FairSpec *)

Terminal == {"success", "failure"}

\* C5: once a poll has returned success the workflow leaves the polling loop
\* for the download; it raises neither the failure nor the timeout error,
\* and it makes no deadline test after that poll.
C5_SuccessGoesToDownload ==
    status = "success" =>
        /\ outcome \notin {"failure", "timeout"}
        /\ pc \in {"match", "download"} \/ "download" \in issued

C5_Witness ==
    /\ status = "success"
    /\ "download" \in issued
    /\ now < end_time

\* C6: while the polled statuses stay non-terminal, a poll that returns at or
\* after end_time is followed by the timeout error; a run that timed out has
\* not downloaded; and every run that polls ends in the timeout error unless
\* a poll returned a terminal status or a status request raised.
C6_NonTerminalEndsInTimeout ==
    /\ [][(pc = "deadline" /\ now >= end_time) =>
            (pc' = "raised" /\ outcome' = "timeout")]_vars
    /\ [](outcome = "timeout" =>
            /\ "download" \notin issued
            /\ status \notin Terminal
            /\ now >= end_time)
    /\ (pc = "poll") ~>
            \/ outcome = "timeout"
            \/ status \in Terminal
            \/ outcome \in {"request_failed", "bad_response"}

C6_Witness == outcome = "timeout" /\ status \in KnownIntermediate

\* C7: a poll that returned failure is followed by the raise and by nothing
\* else: no request, no sleep, no download, no install.
C7_FailureRaisesAtOnce ==
    /\ [](status = "failure" =>
            /\ pc \in {"match", "raised"}
            /\ issued \cap {"download", "unzip", "install", "verify"} = {})
    /\ [][status = "failure" =>
            /\ pc' = "raised"
            /\ outcome' = "failure"
            /\ now' = now
            /\ rpc' = "idle"
            /\ reqCount' = 0
            /\ issued' = issued]_vars

C7_Witness == outcome = "failure" /\ status = "failure"

\* C8: a status outside the five the workflow names takes the same steps as
\* a known intermediate status: the match goes to the deadline test without
\* ending the workflow, and the deadline test either raises the timeout
\* (now >= end_time) or sleeps 2 seconds and polls again.
C8_UnknownStatusKeepsPolling ==
    [][(status \notin Terminal \cup {""}) =>
        /\ pc = "match" =>
              pc' = "deadline" /\ outcome' = "none" /\ now' = now
        /\ pc = "deadline" /\ now >= end_time =>
              pc' = "raised" /\ outcome' = "timeout"
        /\ pc = "deadline" /\ now < end_time =>
              /\ pc' = "poll"
              /\ rpc' = "attempt"
              /\ outcome' = "none"
              /\ now' = now + 2]_vars

C8_Witness ==
    /\ pc = "deadline"
    /\ status \in UnknownStatuses
    /\ now < end_time

\* C9 as stated: the deadline is 180 seconds after the start of the workflow
\* (time 0), so a deadline test made 180 seconds or more after the start
\* raises the timeout.
C9_DeadlineFromWorkflowStart ==
    [][(pc = "deadline" /\ now >= 0 + 180) =>
        (pc' = "raised" /\ outcome' = "timeout")]_vars

\* C9 amended: the deadline is 180 seconds after the moment the start request
\* returned; it never changes afterwards, and a deadline test raises the
\* timeout exactly when that moment is 180 seconds or more in the past.
C9_DeadlineFromPollStart ==
    /\ [][(pc = "start" /\ pc' = "poll") => end_time' = now + 180]_vars
    /\ [][end_time # -1 => end_time' = end_time]_vars
    /\ [][pc = "deadline" => ((outcome' = "timeout") <=> (now >= end_time))]_vars
    /\ [](pc \in {"poll", "match", "deadline"} => end_time # -1)

C9_Witness ==
    /\ pc = "poll"
    /\ rpc = "returned"
    /\ now >= 0 + 180
    /\ now < end_time

\* the steps of the workflow in the order of the claim
WorkflowOrder ==
    <<"package", "wipe_signed", "wipe_presigned", "upload", "create",
      "start", "poll", "download">>

\* C10: the steps occur in the order wipe of signed/, wipe of pre-signed/,
\* upload, create, start, first poll, and a step is begun only after the one
\* before it completed without raising (the command exited with status 0,
\* create returned an id, the start request returned); the download is begun
\* only after a poll returned success.
C10_StepsInOrder ==
    /\ \A k \in 1..Len(WorkflowOrder) :
          /\ k <= Len(log) => log[k] = WorkflowOrder[k]
          /\ k > 1 /\ WorkflowOrder[k] \in issued => Len(log) >= k - 1
    /\ "start" \in issued => request_id # ""
    /\ "download" \in issued => status = "success"

C10_Witness == "download" \in issued /\ Len(log) >= 7

\* C14: when the response to the create request carries no signingRequestId
\* the workflow raises at once, and a workflow without an id has sent
\* neither a start request nor a status poll.
C14_NoIdIsFatal ==
    /\ [][pc = "create" /\ rpc = "returned" /\ response.body = NoId
            => pc' = "raised" /\ outcome' = "bad_response"
               /\ issued' = issued]_vars
    /\ [](request_id = "" => issued \cap {"start", "poll"} = {})

C14_Witness ==
    /\ outcome = "bad_response"
    /\ request_id = ""
    /\ "create" \in issued
    /\ "start" \notin issued

\* C15: after every non-429 response to the start request, whatever its
\* status code, the workflow logs it and enters the polling loop; nothing is
\* raised at start time.
C15_StartNeverRaises ==
    [][pc = "start" /\ rpc = "returned"
         => /\ response.code # TooManyRequests
            /\ pc' = "poll"
            /\ outcome' = "none"
            /\ log' = Append(log, "start")]_vars

C15_Witness ==
    /\ pc = "poll"
    /\ startCode \in {400, 500}
    /\ "poll" \in issued
    /\ outcome = "none"

\* C16: with exactly one child in Payload, a file is placed at the original
\* path as a file and a directory as a directory; with zero or with two or
\* more children a fatal error is raised and the original path, empty since
\* packaging, stays empty.
C16_SingleChildInstalled ==
    [][pc = "install" =>
         LET children == payload.children IN
         /\ Len(children) = 1 /\ children[1] = "file"
               => artifact' = "signed_file" /\ pc' = "verify"
         /\ Len(children) = 1 /\ children[1] = "dir"
               => artifact' = "signed_dir" /\ pc' = "verify"
         /\ Len(children) # 1
               => /\ pc' = "raised"
                  /\ outcome' = "bad_payload"
                  /\ artifact = "absent"
                  /\ artifact' = "absent"]_vars

C16_Witness ==
    /\ pc = "verify"
    /\ artifact = "signed_dir"
    /\ payload = NoPayload

\* C17: the workflow returns only after the codesign command has run and
\* exited with zero; the step taken from the verification is either that
\* return or, on a non-zero exit, a fatal error.
C17_SuccessOnlyAfterVerify ==
    /\ [](outcome = "signed" =>
             /\ "verify" \in issued
             /\ Len(log) > 0
             /\ log[Len(log)] = "verify")
    /\ [][pc = "verify" =>
             \/ pc' = "done" /\ outcome' = "signed"
                   /\ log' = Append(log, "verify")
             \/ pc' = "raised" /\ outcome' = "command_failed"
                   /\ log' = log]_vars

C17_Witness ==
    /\ outcome = "signed"
    /\ pc = "done"
    /\ artifact \in {"signed_file", "signed_dir"}

----------------------------------------------------------------------------
(* The bucket and the signing service, shared by the runs of the workflow. *)
(* Every run uses the same two keys, pre-signed/package.tar.gz and         *)
(* signed/signed.zip.  The service reads the package of a started request  *)
(* and later writes the result under the destination key of the request;   *)
(* it hands out a new id with every create request.                        *)

\* the id a run passes to the start and the status requests: its local
\* request_id, set by the create request of the run
IdUsedEarlier(own, earlier) ==
    IF earlier # {} THEN CHOOSE r \in earlier : TRUE ELSE own
IdUsed(own, earlier) == own

\* aws s3 rm --recursive s3://bucket/prefix removes the objects under the
\* prefix, whether or not this run put them there
WipesOwnOnly(mine) == mine
Wipes(mine) == TRUE

\* the package of workflow q is in the bucket and the service has yet to
\* read it
PackagePending(q) ==
    /\ wpc[q] \in {"create", "start", "poll"}
    /\ preSigned = wrun[q]
    /\ wid[q] = 0 \/ remote[wid[q]] \in {"created", "started"}

\* the run of workflow p is over, by return or by exception
Finish(p) ==
    /\ wpc' = [wpc EXCEPT ![p] = "idle"]
    /\ oldIds' = oldIds \cup ({wid[p]} \ {0})

\* cd_sign_file is called; alone: no other workflow is using the bucket
BeginRunWhen(p, alone) ==
    /\ wpc[p] = "idle"
    /\ runs < MaxRuns
    /\ alone => \A q \in Workflows : wpc[q] = "idle"
    /\ runs' = runs + 1
    /\ wrun' = [wrun EXCEPT ![p] = runs + 1]
    /\ wid' = [wid EXCEPT ![p] = 0]
    /\ got' = [got EXCEPT ![p] = NoObject]
    /\ creates' = [creates EXCEPT ![p] = 0]
    /\ usedIds' = [usedIds EXCEPT ![p] = {}]
    /\ clobbered' = clobbered \ {p}
    /\ wpc' = [wpc EXCEPT ![p] = "wipe_signed"]
    /\ UNCHANGED <<nextId, remote, input, preSigned, signedZip, oldIds>>
    /\ UNCHANGED outsidePool

BeginRun(p) == BeginRunWhen(p, TRUE)

BeginRunBeside(p) == BeginRunWhen(p, FALSE)

\* aws s3 rm --recursive s3://bucket/signed
RemoveSigned(p) ==
    /\ wpc[p] = "wipe_signed"
    /\ \E ok \in BOOLEAN :
          IF ok
            THEN /\ signedZip' = IF Wipes(signedZip.req = wid[p])
                                   THEN NoObject ELSE signedZip
                 /\ wpc' = [wpc EXCEPT ![p] = "wipe_presigned"]
                 /\ oldIds' = oldIds
            ELSE /\ Finish(p)
                 /\ signedZip' = signedZip
    /\ UNCHANGED <<wid, wrun, runs, nextId, remote, input, preSigned, got,
                   creates, usedIds, clobbered>>
    /\ UNCHANGED outsidePool

\* aws s3 rm --recursive s3://bucket/pre-signed
RemovePreSigned(p) ==
    /\ wpc[p] = "wipe_presigned"
    /\ \E ok \in BOOLEAN :
          IF ok
            THEN /\ preSigned' = IF Wipes(preSigned = wrun[p])
                                   THEN 0 ELSE preSigned
                 /\ clobbered' = IF Wipes(preSigned = wrun[p])
                                   THEN clobbered \cup
                                        {q \in Workflows \ {p} : PackagePending(q)}
                                   ELSE clobbered
                 /\ wpc' = [wpc EXCEPT ![p] = "upload"]
                 /\ oldIds' = oldIds
            ELSE /\ Finish(p)
                 /\ UNCHANGED <<preSigned, clobbered>>
    /\ UNCHANGED <<wid, wrun, runs, nextId, remote, input, signedZip, got,
                   creates, usedIds>>
    /\ UNCHANGED outsidePool

\* aws s3 cp package.tar.gz s3://bucket/pre-signed/package.tar.gz
CopyPackage(p) ==
    /\ wpc[p] = "upload"
    /\ \E ok \in BOOLEAN :
          IF ok
            THEN /\ preSigned' = wrun[p]
                 /\ clobbered' = clobbered \cup
                                 {q \in Workflows \ {p} : PackagePending(q)}
                 /\ wpc' = [wpc EXCEPT ![p] = "create"]
                 /\ oldIds' = oldIds
            ELSE /\ Finish(p)
                 /\ UNCHANGED <<preSigned, clobbered>>
    /\ UNCHANGED <<wid, wrun, runs, nextId, remote, input, signedZip, got,
                   creates, usedIds>>
    /\ UNCHANGED outsidePool

\* request_id = cd_signer_create_request(manifest)
CreateRequest(p) ==
    /\ wpc[p] = "create"
    /\ creates' = [creates EXCEPT ![p] = creates[p] + 1]
    /\ \E ok \in BOOLEAN :
          IF ok
            THEN /\ wid' = [wid EXCEPT ![p] = nextId]
                 /\ remote' = [remote EXCEPT ![nextId] = "created"]
                 /\ nextId' = nextId + 1
                 /\ wpc' = [wpc EXCEPT ![p] = "start"]
                 /\ oldIds' = oldIds
            ELSE /\ Finish(p)
                 /\ UNCHANGED <<wid, remote, nextId>>
    /\ UNCHANGED <<wrun, runs, input, preSigned, signedZip, got, usedIds,
                   clobbered>>
    /\ UNCHANGED outsidePool

\* cd_signer_start_request(request_id, source_key, destination_key, ...):
\* the service starts the request or rejects the call, or the call raises
StartRequest(p) ==
    /\ wpc[p] = "start"
    /\ LET id == IdUsed(wid[p], oldIds) IN
       /\ usedIds' = [usedIds EXCEPT ![p] = @ \cup {id}]
       /\ \E result \in {"accepted", "rejected", "raised"} :
             /\ remote' = IF result = "accepted" /\ remote[id] = "created"
                            THEN [remote EXCEPT ![id] = "started"]
                            ELSE remote
             /\ IF result = "raised"
                  THEN Finish(p)
                  ELSE /\ wpc' = [wpc EXCEPT ![p] = "poll"]
                       /\ oldIds' = oldIds
    /\ UNCHANGED <<wid, wrun, runs, nextId, input, preSigned, signedZip, got,
                   creates, clobbered>>
    /\ UNCHANGED outsidePool

\* one iteration of the polling loop: cd_signer_status_request(request_id),
\* match status; over: the deadline has passed or the call raised
StatusRequest(p) ==
    /\ wpc[p] = "poll"
    /\ LET id == IdUsed(wid[p], oldIds) IN
       /\ usedIds' = [usedIds EXCEPT ![p] = @ \cup {id}]
       /\ \E over \in BOOLEAN :
             CASE remote[id] = "success" /\ ~over ->
                     /\ wpc' = [wpc EXCEPT ![p] = "download"]
                     /\ oldIds' = oldIds
               [] remote[id] = "failure" \/ over -> Finish(p)
               [] OTHER -> UNCHANGED <<wpc, oldIds>>
    /\ UNCHANGED <<wid, wrun, runs, nextId, remote, input, preSigned,
                   signedZip, got, creates, clobbered>>
    /\ UNCHANGED outsidePool

\* aws s3 cp s3://bucket/signed/signed.zip signed.zip, to the end of the run
CopySigned(p) ==
    /\ wpc[p] = "download"
    /\ \E ok \in BOOLEAN :
          got' = IF ok /\ signedZip # NoObject
                   THEN [got EXCEPT ![p] = signedZip] ELSE got
    /\ Finish(p)
    /\ UNCHANGED <<wid, wrun, runs, nextId, remote, input, preSigned,
                   signedZip, creates, usedIds, clobbered>>
    /\ UNCHANGED outsidePool

\* the service fetches the source key of a started request
ServiceRead(r) ==
    /\ remote[r] = "started"
    /\ IF preSigned = 0
         THEN /\ remote' = [remote EXCEPT ![r] = "failure"]
              /\ input' = input
         ELSE /\ remote' = [remote EXCEPT ![r] = "signing"]
              /\ input' = [input EXCEPT ![r] = preSigned]
    /\ UNCHANGED <<wpc, wid, wrun, runs, nextId, preSigned, signedZip, got,
                   creates, usedIds, oldIds, clobbered>>
    /\ UNCHANGED outsidePool

\* the service is done with a request: it writes the destination key and
\* reports success, or it reports failure
ServiceWrite(r) ==
    /\ remote[r] = "signing"
    /\ \E ok \in BOOLEAN :
          IF ok
            THEN /\ signedZip' = [req |-> r, pkg |-> input[r]]
                 /\ remote' = [remote EXCEPT ![r] = "success"]
            ELSE /\ signedZip' = signedZip
                 /\ remote' = [remote EXCEPT ![r] = "failure"]
    /\ UNCHANGED <<wpc, wid, wrun, runs, nextId, input, preSigned, got,
                   creates, usedIds, oldIds, clobbered>>
    /\ UNCHANGED outsidePool

PoolInit == SigningIdle /\ PoolIdle /\ NotaryIdle /\ GpgIdle /\ RestIdle

\* one workflow at a time
SeqNext ==
    \/ \E p \in Workflows : BeginRun(p)
    \/ \E p \in Workflows : RemoveSigned(p)
    \/ \E p \in Workflows : RemovePreSigned(p)
    \/ \E p \in Workflows : CopyPackage(p)
    \/ \E p \in Workflows : CreateRequest(p)
    \/ \E p \in Workflows : StartRequest(p)
    \/ \E p \in Workflows : StatusRequest(p)
    \/ \E p \in Workflows : CopySigned(p)
    \/ \E r \in RequestIds : ServiceRead(r)
    \/ \E r \in RequestIds : ServiceWrite(r)

SeqSpec == PoolInit /\ [][SeqNext]_vars

\* workflows started independently of each other
ConcNext ==
    \/ \E p \in Workflows : BeginRunBeside(p)
    \/ \E p \in Workflows : RemoveSigned(p)
    \/ \E p \in Workflows : RemovePreSigned(p)
    \/ \E p \in Workflows : CopyPackage(p)
    \/ \E p \in Workflows : CreateRequest(p)
    \/ \E p \in Workflows : StartRequest(p)
    \/ \E p \in Workflows : StatusRequest(p)
    \/ \E p \in Workflows : CopySigned(p)
    \/ \E r \in RequestIds : ServiceRead(r)
    \/ \E r \in RequestIds : ServiceWrite(r)

ConcSpec == PoolInit /\ [][ConcNext]_vars

\* the run of workflow p has passed its create request
PastCreate(p) == wpc[p] \in {"start", "poll", "download"}

\* C11: a run sends one create request; the only id it passes to the start
\* request and to its status polls is the id that create request returned,
\* and that id was never returned to a run that is over.
C11_OwnFreshId ==
    \A p \in Workflows :
       /\ creates[p] <= 1
       /\ PastCreate(p) => creates[p] = 1 /\ wid[p] # 0
       /\ usedIds[p] \subseteq {wid[p]} \ {0}
       /\ wpc[p] # "idle" => wid[p] \notin oldIds /\ usedIds[p] \cap oldIds = {}

C11_Witness ==
    \E p \in Workflows :
       /\ wrun[p] = 2
       /\ oldIds # {}
       /\ wpc[p] = "download"
       /\ usedIds[p] = {wid[p]}

\* C12: with one workflow at a time, the signed.zip a run downloads was
\* written for the request of that run and holds the package of that run.
C12_DownloadsOwnResult ==
    \A p \in Workflows :
       got[p] # NoObject => got[p].req = wid[p] /\ got[p].pkg = wrun[p]

\* C13: each wipe of a workflow empties its prefix, whichever run the
\* object under it belongs to; for a workflow whose package was removed by
\* the wipe or replaced by the upload of another workflow before the service
\* read it, the service never reads that package for the workflow's request
\* and the workflow never downloads the result of its request on its package.
C13_WipeIgnoresOwner ==
    /\ [][\A p \in Workflows :
             /\ wpc[p] = "wipe_signed" /\ wpc'[p] = "wipe_presigned"
                   => signedZip' = NoObject
             /\ wpc[p] = "wipe_presigned" /\ wpc'[p] = "upload"
                   => preSigned' = 0]_vars
    /\ [](\A q \in clobbered :
             /\ wid[q] # 0 => input[wid[q]] # wrun[q]
             /\ got[q] # [req |-> wid[q], pkg |-> wrun[q]])

C13_Witness ==
    \E p, q \in Workflows :
       /\ p # q
       /\ q \in clobbered
       /\ wpc[q] = "poll"
       /\ wpc[p] = "upload"
       /\ preSigned = 0

----------------------------------------------------------------------------
(* Notarization: apple_notarize_file for an app bundle or a dmg, and       *)
(* notarize_executable for an executable.  notarytool reports a status in  *)
(* its output and, apart from it, exits with zero or not.                  *)

\* the statuses notarytool submit --wait can report
NotaryStatuses == {"Accepted", "Invalid", "Rejected"}

\* the statements of each function, in order
NotaryOrder(client) ==
    CASE client = "app" -> <<"syspolicy", "ditto", "secrets", "submit",
                             "staple", "spctl", "unlink", "distribution">>
      [] client = "dmg" -> <<"secrets", "submit", "staple", "spctl">>
      [] client = "exe" -> <<"secrets", "unlink_stale", "zip", "submit",
                             "assert", "unlink">>

\* the statement after step, "returned" after the last
NextOf(client, step) ==
    LET order == NotaryOrder(client)
        k == CHOOSE j \in 1..Len(order) : order[j] = step
    IN IF k = Len(order) THEN "returned" ELSE order[k + 1]

\* the statement at npc has run and control moves on
NotaryGoto ==
    /\ npc' = NextOf(nclient, npc)
    /\ nlog' = Append(nlog, npc)

\* the statement at npc raised
NotaryRaise ==
    /\ npc' = "raised"
    /\ nlog' = Append(nlog, npc)

\* what the function does with the status notarytool reported
StatusAccepted(client, reported) ==
    IF client = "exe" THEN reported = "Accepted" ELSE TRUE

\* run_cmd([...], check=False), as the two syspolicy_check commands
SyspolicyCheck ==
    /\ npc \in {"syspolicy", "distribution"}
    /\ npc' = NextOf(nclient, npc)
    /\ \E ok \in BOOLEAN :
          nlog' = Append(nlog, IF ok THEN npc ELSE "ignored_failure")
    /\ UNCHANGED <<nclient, zipFile, nstatus, stapled, later>>
    /\ UNCHANGED outsideNotary

\* run_cmd(["ditto", "-c", "-k", "--sequesterRsrc", "--keepParent", ...])
Ditto ==
    /\ npc = "ditto"
    /\ \E ok \in BOOLEAN :
          IF ok THEN NotaryGoto /\ zipFile' = "made"
                ELSE NotaryRaise /\ zipFile' = zipFile
    /\ UNCHANGED <<nclient, nstatus, stapled, later>>
    /\ UNCHANGED outsideNotary

\* the Apple id and password are read from the secrets manager
Secrets ==
    /\ npc = "secrets"
    /\ \E ok \in BOOLEAN : IF ok THEN NotaryGoto ELSE NotaryRaise
    /\ UNCHANGED <<nclient, zipFile, nstatus, stapled, later>>
    /\ UNCHANGED outsideNotary

\* zip_path.unlink(missing_ok=True)
UnlinkStale ==
    /\ npc = "unlink_stale"
    /\ zipFile' = "absent"
    /\ NotaryGoto
    /\ UNCHANGED <<nclient, nstatus, stapled, later>>
    /\ UNCHANGED outsideNotary

\* run_cmd(["zip", "-j", zip_path, exe_path], cwd=BUILD_DIR)
Zip ==
    /\ npc = "zip"
    /\ \E ok \in BOOLEAN :
          IF ok THEN NotaryGoto /\ zipFile' = "made"
                ELSE NotaryRaise /\ zipFile' = zipFile
    /\ UNCHANGED <<nclient, nstatus, stapled, later>>
    /\ UNCHANGED outsideNotary

\* xcrun notarytool submit ... --wait, through run_cmd or run_cmd_output:
\* a non-zero exit raises
Submit ==
    /\ npc = "submit"
    /\ \E ok \in BOOLEAN, reported \in NotaryStatuses \cup {""} :
          /\ ok => reported # ""
          /\ ~ok => reported # "Accepted"
          /\ nstatus' = reported
          /\ IF ok THEN NotaryGoto ELSE NotaryRaise
    /\ UNCHANGED <<nclient, zipFile, stapled, later>>
    /\ UNCHANGED outsideNotary

\* assert json.loads(submit_res)["status"] == "Accepted"
AssertAccepted ==
    /\ npc = "assert"
    /\ IF StatusAccepted(nclient, nstatus) THEN NotaryGoto ELSE NotaryRaise
    /\ UNCHANGED <<nclient, zipFile, nstatus, stapled, later>>
    /\ UNCHANGED outsideNotary

\* run_cmd(["xcrun", "stapler", "staple", file])
Staple ==
    /\ npc = "staple"
    /\ stapled' = TRUE
    /\ \E ok \in BOOLEAN : IF ok THEN NotaryGoto ELSE NotaryRaise
    /\ UNCHANGED <<nclient, zipFile, nstatus, later>>
    /\ UNCHANGED outsideNotary

\* run_cmd(["spctl", "-a", ...])
Spctl ==
    /\ npc = "spctl"
    /\ \E ok \in BOOLEAN : IF ok THEN NotaryGoto ELSE NotaryRaise
    /\ UNCHANGED <<nclient, zipFile, nstatus, stapled, later>>
    /\ UNCHANGED outsideNotary

\* pathlib.Path(file_to_notarize).unlink(), zip_path.unlink()
UnlinkZip ==
    /\ npc = "unlink"
    /\ IF zipFile = "absent"
         THEN NotaryRaise /\ zipFile' = zipFile
         ELSE NotaryGoto /\ zipFile' = "absent"
    /\ UNCHANGED <<nclient, nstatus, stapled, later>>
    /\ UNCHANGED outsideNotary

\* the caller goes on: rebundle_dmg, the final archives
PipelineGoesOn ==
    /\ npc = "returned"
    /\ ~later
    /\ later' = TRUE
    /\ UNCHANGED <<nclient, npc, zipFile, nstatus, stapled, nlog>>
    /\ UNCHANGED outsideNotary

NotaryInit ==
    /\ SigningIdle
    /\ PoolIdle
    /\ GpgIdle
    /\ RestIdle
    /\ nclient \in {"app", "dmg", "exe"}
    /\ npc = NotaryOrder(nclient)[1]
    /\ zipFile \in {"absent", "stale"}
    /\ nstatus = ""
    /\ stapled = FALSE
    /\ later = FALSE
    /\ nlog = <<>>

NotaryNext ==
    \/ SyspolicyCheck
    \/ Ditto
    \/ Secrets
    \/ UnlinkStale
    \/ Zip
    \/ Submit
    \/ AssertAccepted
    \/ Staple
    \/ Spctl
    \/ UnlinkZip
    \/ PipelineGoesOn

NotarySpec == NotaryInit /\ [][NotaryNext]_vars

\* the statement step has been run
Ran(step) == \E k \in 1..Len(nlog) : nlog[k] = step

\* C18: when a notarization call that ran the submission has returned or
\* raised, the zip made for the submission is gone.
C18_ZipGoneAtExit ==
    npc \in {"returned", "raised"} /\ Ran("submit") => zipFile # "made"

\* C19: when the notary service reported a status other than "Accepted",
\* the call raises: stapling is not run, the call does not return and the
\* caller does not go on.
C19_NotAcceptedIsFatal ==
    nstatus \notin {"", "Accepted"} =>
        /\ ~stapled
        /\ npc # "returned"
        /\ ~later

----------------------------------------------------------------------------
(* The GPG signer in the Linux pipelines: build_linux_minimal of build.py  *)
(* and build with build_linux of qchatbuild.py.                            *)

\* the archives each pipeline builds, in order
Formats(pipe) ==
    IF pipe = "minimal" THEN <<"tar.gz", "tar.xz", "tar.zst", "zip">>
                        ELSE <<"tar.gz", "zip">>

\* stage_name values the build accepts
KnownStagesAndBeta == {"prod", "None", "gamma", "beta"}
KnownStages == {"prod", "None", "gamma"}

\* where the pipeline goes on once the signer is loaded: qchatbuild loads
\* it first of all, build_linux_minimal right before the archives
AfterLoad(pipe) == IF pipe = "chat" THEN "stage" ELSE "archive"

\* control moves to position p; the first archive is the first format
GGoto(p) ==
    /\ gpc' = p
    /\ gfmt' = IF p = "archive" /\ gfmt = 0 THEN 1 ELSE gfmt

\* an exception leaves the pipeline: there is no try/finally around it
GRaise ==
    /\ gpc' = "raised"
    /\ gfmt' = gfmt

\* the archive of this format is done: on to the next format or to the
\* removal of the archive directory
NextArchive ==
    IF gfmt < Len(Formats(gpipe))
      THEN gpc' = "archive" /\ gfmt' = gfmt + 1
      ELSE gpc' = "rmtree" /\ gfmt' = gfmt

\* load_gpg_signer: no key configured, or the secret cannot be read, or
\* GpgSigner(...) is called
LoadGpgSigner ==
    /\ gpc = "load"
    /\ \E choice \in {"no_key", "secret_failed", "construct"} :
          CASE choice = "no_key" ->
                  /\ signer' = "none"
                  /\ GGoto(AfterLoad(gpipe))
                  /\ constructed' = constructed
            [] choice = "secret_failed" ->
                  /\ GRaise
                  /\ UNCHANGED <<signer, constructed>>
            [] choice = "construct" ->
                  /\ GGoto("mkdir")
                  /\ constructed' = TRUE
                  /\ signer' = signer
    /\ UNCHANGED <<gpipe, gconf, gpgHome, keyFiles, signatures>>
    /\ UNCHANGED outsideGpg

\* self.gpg_home.mkdir(parents=True, exist_ok=True, mode=0o700)
MakeGpgHome ==
    /\ gpc = "mkdir"
    /\ \E ok \in BOOLEAN :
          IF ok THEN GGoto("write_secret") /\ gpgHome' = TRUE
                ELSE GRaise /\ gpgHome' = gpgHome
    /\ UNCHANGED <<gpipe, gconf, keyFiles, signer, constructed, signatures>>
    /\ UNCHANGED outsideGpg

\* gpg_secret_key_path.write_bytes(base64.b64decode(...)), then
\* gpg_passphrase_path.write_text(...)
WriteKeyFile ==
    /\ gpc \in {"write_secret", "write_pass"}
    /\ \E ok \in BOOLEAN :
          IF ok
            THEN /\ keyFiles' = keyFiles \cup
                       {IF gpc = "write_secret" THEN "gpg_secret" ELSE "gpg_pass"}
                 /\ GGoto(IF gpc = "write_secret" THEN "write_pass"
                                                  ELSE "gpg_version")
            ELSE GRaise /\ keyFiles' = keyFiles
    /\ UNCHANGED <<gpipe, gconf, gpgHome, signer, constructed, signatures>>
    /\ UNCHANGED outsideGpg

\* the four gpg commands of __init__; after the last the constructor
\* returns and the signer is bound
GpgCommand ==
    /\ gpc \in {"gpg_version", "list_keys", "import", "list_keys_again"}
    /\ \E ok \in BOOLEAN :
          IF ok
            THEN /\ keyFiles' = IF gpc = "import"
                                  THEN keyFiles \cup {"keyring"} ELSE keyFiles
                 /\ signer' = IF gpc = "list_keys_again" THEN "built" ELSE signer
                 /\ GGoto(CASE gpc = "gpg_version" -> "list_keys"
                            [] gpc = "list_keys" -> "import"
                            [] gpc = "import" -> "list_keys_again"
                            [] OTHER -> AfterLoad(gpipe))
            ELSE GRaise /\ UNCHANGED <<keyFiles, signer>>
    /\ UNCHANGED <<gpipe, gconf, gpgHome, constructed, signatures>>
    /\ UNCHANGED outsideGpg

\* match stage_name: anything but prod, None and gamma raises ValueError
CheckStage ==
    /\ gpc = "stage"
    /\ IF gconf.stage \in KnownStages THEN GGoto("tests") ELSE GRaise
    /\ UNCHANGED <<gpipe, gconf, gpgHome, keyFiles, signer, constructed,
                   signatures>>
    /\ UNCHANGED outsideGpg

\* run_cargo_tests() if run_test, run_clippy() if run_lints, build_chat_bin
CargoStep ==
    /\ gpc \in {"tests", "clippy", "build"}
    /\ LET runs_it == CASE gpc = "tests" -> gconf.run_test
                        [] gpc = "clippy" -> gconf.run_lints
                        [] OTHER -> TRUE
           next == CASE gpc = "tests" -> "clippy"
                     [] gpc = "clippy" -> "build"
                     [] OTHER -> "archive"
       IN \E ok \in BOOLEAN :
             IF ok \/ ~runs_it THEN GGoto(next) ELSE GRaise
    /\ UNCHANGED <<gpipe, gconf, gpgHome, keyFiles, signer, constructed,
                   signatures>>
    /\ UNCHANGED outsideGpg

\* run_cmd(["tar", ...]) or run_cmd(["zip", ...])
Archive ==
    /\ gpc = "archive"
    /\ \E ok \in BOOLEAN : IF ok THEN GGoto("sha") ELSE GRaise
    /\ UNCHANGED <<gpipe, gconf, gpgHome, keyFiles, signer, constructed,
                   signatures>>
    /\ UNCHANGED outsideGpg

\* generate_sha(path); if signer: signer.sign_file(path)
GenerateSha ==
    /\ gpc = "sha"
    /\ \E ok \in BOOLEAN :
          CASE ~ok -> GRaise
            [] ok /\ signer = "built" -> GGoto("sign")
            [] OTHER -> NextArchive
    /\ UNCHANGED <<gpipe, gconf, gpgHome, keyFiles, signer, constructed,
                   signatures>>
    /\ UNCHANGED outsideGpg

\* sign_file: two gpg --detach-sign commands
SignFile ==
    /\ gpc = "sign"
    /\ \E ok \in BOOLEAN :
          IF ok THEN NextArchive /\ signatures' = signatures + 1
                ELSE GRaise /\ signatures' = signatures
    /\ UNCHANGED <<gpipe, gconf, gpgHome, keyFiles, signer, constructed>>
    /\ UNCHANGED outsideGpg

\* shutil.rmtree(archive_path); if signer: signer.clean()
RemoveArchiveDir ==
    /\ gpc = "rmtree"
    /\ \E ok \in BOOLEAN :
          CASE ~ok -> GRaise
            [] ok /\ signer = "built" -> GGoto("clean")
            [] OTHER -> GGoto("returned")
    /\ UNCHANGED <<gpipe, gconf, gpgHome, keyFiles, signer, constructed,
                   signatures>>
    /\ UNCHANGED outsideGpg

\* clean: shutil.rmtree(self.gpg_home, ignore_errors=True)
Clean ==
    /\ gpc = "clean"
    /\ gpgHome' = FALSE
    /\ keyFiles' = {}
    /\ GGoto("returned")
    /\ UNCHANGED <<gpipe, gconf, signer, constructed, signatures>>
    /\ UNCHANGED outsideGpg

GpgInit ==
    /\ SigningIdle
    /\ PoolIdle
    /\ NotaryIdle
    /\ RestIdle
    /\ gpipe \in {"minimal", "chat"}
    /\ gconf \in [stage : KnownStages \cup {"beta"}, run_test : BOOLEAN,
                  run_lints : BOOLEAN]
    /\ gpipe = "minimal" =>
          gconf = [stage |-> "None", run_test |-> FALSE, run_lints |-> FALSE]
    /\ gpc = "load"
    /\ gfmt = 0
    /\ gpgHome = FALSE
    /\ keyFiles = {}
    /\ signer = "unset"
    /\ constructed = FALSE
    /\ signatures = 0

GpgNext ==
    \/ LoadGpgSigner
    \/ MakeGpgHome
    \/ WriteKeyFile
    \/ GpgCommand
    \/ CheckStage
    \/ CargoStep
    \/ Archive
    \/ GenerateSha
    \/ SignFile
    \/ RemoveArchiveDir
    \/ Clean

GpgSpec == GpgInit /\ [][GpgNext]_vars

\* C20: when a pipeline run that entered GpgSigner.__init__ has ended, by
\* return or by exception, ~/.gnupg-tmp and the files in it are gone.
C20_KeyringGoneAtEnd ==
    constructed /\ gpc \in {"returned", "raised"} =>
        ~gpgHome /\ keyFiles = {}

----------------------------------------------------------------------------
(* GpgSigner sessions of one user.  Every session computes the same        *)
(* gpg_home, pathlib.Path.home() / ".gnupg-tmp".                           *)

\* permission bits, as sets of bit names
GroupOtherBits == {"gr", "gw", "gx", "or", "ow", "ox"}
Mode700 == {"ur", "uw", "ux"}
Mode755 == Mode700 \cup {"gr", "gx", "or", "ox"}
Umask022 == {"gw", "ow"}
Umask077 == GroupOtherBits

OwnerOnly(mode) == mode \cap GroupOtherBits = {}

\* the mode of gpg_home after mkdir(parents=True, exist_ok=True, mode=0o700):
\* an existing directory is left as it is, a new one gets the mode less the
\* umask
DirMode(exists, old, mask) == IF exists THEN old ELSE Mode700 \ mask

\* the session is between its mkdir and its end
Live(t) == kpc[t] \in {"write_secret", "write_pass", "import", "ready", "signed"}

\* the session ends with an exception: nothing is removed
KRaise(sess) == kpc' = [kpc EXCEPT ![sess] = "ended"]

\* GpgSigner(...) is called
KConstruct(sess) ==
    /\ kpc[sess] = "idle"
    /\ kpc' = [kpc EXCEPT ![sess] = "mkdir"]
    /\ UNCHANGED <<kdir, kmode, kfiles, kumask, found, robbed>>
    /\ UNCHANGED outsideKey

\* self.gpg_home.mkdir(parents=True, exist_ok=True, mode=0o700)
KMkdir(sess) ==
    /\ kpc[sess] = "mkdir"
    /\ kdir' = TRUE
    /\ kmode' = DirMode(kdir, kmode, kumask)
    /\ found' = IF \E f \in KeyFileNames : kfiles[f] \notin {0, sess}
                  THEN found \cup {sess} ELSE found
    /\ kpc' = [kpc EXCEPT ![sess] = "write_secret"]
    /\ UNCHANGED <<kfiles, kumask, robbed>>
    /\ UNCHANGED outsideKey

\* gpg_secret_key_path.write_bytes(...), gpg_passphrase_path.write_text(...):
\* the write raises when the directory is gone or the key does not decode
KWrite(sess) ==
    /\ kpc[sess] \in {"write_secret", "write_pass"}
    /\ \E ok \in BOOLEAN :
          IF ok /\ kdir
            THEN /\ kfiles' = [kfiles EXCEPT
                       ![IF kpc[sess] = "write_secret" THEN "gpg_secret"
                                                       ELSE "gpg_pass"] = sess]
                 /\ kpc' = [kpc EXCEPT ![sess] =
                       IF kpc[sess] = "write_secret" THEN "write_pass"
                                                     ELSE "import"]
            ELSE KRaise(sess) /\ kfiles' = kfiles
    /\ UNCHANGED <<kdir, kmode, kumask, found, robbed>>
    /\ UNCHANGED outsideKey

\* the gpg commands of __init__, with GNUPGHOME = gpg_home: the import reads
\* gpg_secret and gpg_pass from the directory
KImport(sess) ==
    /\ kpc[sess] = "import"
    /\ \E ok \in BOOLEAN :
          IF ok /\ kdir /\ kfiles["gpg_secret"] # 0 /\ kfiles["gpg_pass"] # 0
            THEN /\ kfiles' = [kfiles EXCEPT !["keyring"] = sess]
                 /\ kpc' = [kpc EXCEPT ![sess] = "ready"]
            ELSE KRaise(sess) /\ kfiles' = kfiles
    /\ UNCHANGED <<kdir, kmode, kumask, found, robbed>>
    /\ UNCHANGED outsideKey

\* sign_file: gpg --detach-sign with GNUPGHOME = gpg_home
KSignFile(sess) ==
    /\ kpc[sess] = "ready"
    /\ \E ok \in BOOLEAN :
          IF ok /\ kdir /\ kfiles["keyring"] # 0 /\ kfiles["gpg_pass"] # 0
            THEN kpc' = [kpc EXCEPT ![sess] = "signed"]
            ELSE KRaise(sess)
    /\ UNCHANGED <<kdir, kmode, kfiles, kumask, found, robbed>>
    /\ UNCHANGED outsideKey

\* clean: shutil.rmtree(self.gpg_home, ignore_errors=True)
KClean(sess) ==
    /\ kpc[sess] \in {"ready", "signed"}
    /\ kdir' = FALSE
    /\ kmode' = {}
    /\ kfiles' = [f \in KeyFileNames |-> 0]
    /\ robbed' = robbed \cup {t \in Sessions \ {sess} : Live(t)}
    /\ kpc' = [kpc EXCEPT ![sess] = "done"]
    /\ UNCHANGED <<kumask, found>>
    /\ UNCHANGED outsideKey

\* the directory may be there before the first session, with any mode
KeyInit ==
    /\ SigningIdle
    /\ PoolIdle
    /\ NotaryIdle
    /\ GpgIdle
    /\ BuildIdle
    /\ StageIdle
    /\ TailIdle
    /\ kdir \in BOOLEAN
    /\ kmode \in {{}, Mode700, Mode755}
    /\ kdir <=> kmode # {}
    /\ kfiles = [f \in KeyFileNames |-> 0]
    /\ kpc = [sess \in Sessions |-> "idle"]
    /\ kumask \in {Umask022, Umask077}
    /\ found = {}
    /\ robbed = {}

KeyNext ==
    \/ \E sess \in Sessions : KConstruct(sess)
    \/ \E sess \in Sessions : KMkdir(sess)
    \/ \E sess \in Sessions : KWrite(sess)
    \/ \E sess \in Sessions : KImport(sess)
    \/ \E sess \in Sessions : KSignFile(sess)
    \/ \E sess \in Sessions : KClean(sess)

KeySpec == KeyInit /\ [][KeyNext]_vars

\* C21: no session finds key material of another session in its
\* directory, and no clean() removes the keyring of another live session.
C21_PrivateKeyring == found = {} /\ robbed = {}

\* C22: whenever a secret-key or passphrase file is in the keyring
\* directory, the directory has no group or other permission bits.
C22_OwnerOnlyDirectory ==
    (\E f \in {"gpg_secret", "gpg_pass"} : kfiles[f] # 0) => OwnerOnly(kmode)

----------------------------------------------------------------------------
(* The two builds from backend selection to the final archives: build of   *)
(* build.py (desktop: the dmg on macOS, the minimal archives on Linux) and *)
(* build of qchatbuild.py (chat).                                          *)

Step(kind, what) == [kind |-> kind, what |-> what]

\* a value Python takes as true; a value that is not None
Truthy(v) == v = "set"
NotNone(v) == v # "unset"

\* the values an argument or environment variable is drawn from
EnvValuesOf(n) ==
    IF n \in GpgNames THEN {"unset", "empty", "set"} ELSE {"unset", "set"}

\* the names each script reads
ReadBy(script) ==
    IF script = "desktop" THEN EnvNames \ {"disable"}
                          ELSE EnvNames \ {"account", "output"}

\* the credentials signing_data is built from
RemoteRequired(script) ==
    IF script = "desktop" THEN {"bucket", "account", "secret", "role"}
                          ELSE {"role", "bucket", "secret"}

\* the condition under which build binds signing_data to a CdSigningData
SigningDataBuilt(script, platform, env) ==
    /\ \A n \in RemoteRequired(script) : Truthy(env[n])
    /\ script = "chat" => ~Truthy(env["disable"]) /\ platform = "Darwin"

\* whether load_gpg_signer is called at the load step
LoadsGpgAnyPlatform(script, platform, env) ==
    script = "chat" => ~Truthy(env["disable"])
LoadsGpg(script, platform, env) ==
    script = "chat" => ~Truthy(env["disable"]) /\ platform = "Linux"

\* load_gpg_signer: the test key, else the key of the secret ARN, else None
GpgChoiceNoKeyCheck(env) ==
    CASE Truthy(env["test_id"]) -> "test_key"
      [] Truthy(env["arn"]) -> "arn_key"
      [] OTHER -> "none"
GpgChoice(env) ==
    CASE Truthy(env["test_id"]) /\ NotNone(env["test_key"])
            /\ NotNone(env["test_pass"]) -> "test_key"
      [] Truthy(env["arn"]) -> "arn_key"
      [] OTHER -> "none"

\* sign_and_rebundle_macos
SignAndRebundleDmgFirst ==
    <<Step("remote_sign", "dmg"), Step("notarize", "dmg"),
      Step("rebundle", "dmg"), Step("remote_sign", "app"),
      Step("notarize", "app")>>
SignAndRebundle ==
    <<Step("remote_sign", "app"), Step("notarize", "app"),
      Step("rebundle", "dmg"), Step("remote_sign", "dmg"),
      Step("notarize", "dmg")>>

\* one archive of a Linux build: tar or zip, generate_sha, sign_file
LinuxArchive(format) ==
    <<Step("archive", format), Step("sha", format), Step("gpg_sign", format)>>

\* the signature dpkg-sig embeds in the deb, and the checksum made again
\* for it
DebSigningKeepsSha == <<Step("gpg_embed", "deb")>>
DebSigning == <<Step("gpg_embed", "deb"), Step("resha", "deb")>>

\* the steps of each build, in the order of the code; Ubuntu is Linux with
\* "ubuntu" in platform.version(), where the full variant is built
Order(script, platform) ==
    CASE script = "desktop" /\ platform = "Darwin" ->
            <<Step("select", "signing_data"), Step("stage", "stage_name"),
              Step("fetch", "pnpm_install"),
              Step("local", "npm_build"), Step("local", "cargo_build"),
              Step("local", "ime_build"), Step("remote_sign", "ime"),
              Step("notarize", "ime"), Step("local", "tauri_build"),
              Step("local", "copy_ime"), Step("fetch", "git_clone"),
              Step("local", "copy_resources"), Step("archive", "dmg")>>
            \o SignAndRebundle
            \o <<Step("archive", "app_targz"), Step("sha", "dmg"),
                 Step("upload", "output")>>
      [] script = "desktop" /\ platform = "Linux" ->
            <<Step("select", "signing_data"), Step("stage", "stage_name"),
              Step("local", "cargo_build"),
              Step("local", "stage_files"), Step("gpg_load", "signer")>>
            \o LinuxArchive("tar.gz") \o LinuxArchive("tar.xz")
            \o LinuxArchive("tar.zst") \o LinuxArchive("zip")
            \o <<Step("local", "rmtree"), Step("gpg_clean", "signer")>>
      [] script = "desktop" /\ platform = "Ubuntu" ->
            <<Step("select", "signing_data"), Step("stage", "stage_name"),
              Step("fetch", "pnpm_install"), Step("local", "npm_build"),
              Step("local", "cargo_build"), Step("fetch", "git_clone"),
              Step("local", "copy_extensions"), Step("local", "tauri_build"),
              Step("archive", "deb"), Step("sha", "deb"),
              Step("archive", "appimage"), Step("sha", "appimage"),
              Step("gpg_load", "signer"), Step("gpg_sign", "appimage")>>
            \o DebSigning
            \o <<Step("gpg_clean", "signer")>>
      [] script = "chat" /\ platform = "Darwin" ->
            <<Step("gpg_load", "signer"), Step("select", "signing_data"),
              Step("stage", "stage_name"),
              Step("local", "cargo_build"), Step("local", "copy_chat"),
              Step("remote_sign", "exe"), Step("notarize", "exe"),
              Step("archive", "zip"), Step("sha", "zip")>>
      [] script = "chat" /\ platform = "Linux" ->
            <<Step("gpg_load", "signer"), Step("select", "signing_data"),
              Step("stage", "stage_name"),
              Step("local", "cargo_build"), Step("local", "copy_chat")>>
            \o LinuxArchive("tar.gz") \o LinuxArchive("zip")
            \o <<Step("local", "rmtree"), Step("gpg_clean", "signer")>>

\* the guard under which a step of the order is executed: if signing_data,
\* if signer, if output_bucket
Runs(st, data, sgn, env) ==
    CASE st.kind \in {"remote_sign", "notarize", "rebundle"} -> data = "data"
      [] st.kind \in {"gpg_sign", "gpg_embed", "resha", "gpg_clean"} ->
            sgn = "built"
      [] st.kind = "upload" -> Truthy(env["output"])
      [] OTHER -> TRUE

\* the network calls a step makes
NetworkOf(st) ==
    CASE st.kind = "fetch" -> {"fetch"}
      [] st.kind = "remote_sign" -> {"object_store", "signing_service"}
      [] st.kind = "notarize" -> {"secret", "notary"}
      [] st.kind = "upload" -> {"object_store"}
      [] st.kind = "gpg_secret" -> {"secret"}
      [] OTHER -> {}

\* the step the build is at
Cur == Order(bscript, bplatform)[bpc]

At(kind) ==
    /\ bstate = "running"
    /\ bpc \in 1..Len(Order(bscript, bplatform))
    /\ Cur.kind = kind

\* the index of the next step that is executed with these bindings of
\* signing_data and signer, one past the end when there is none
NextPos(k, data, sgn) ==
    LET order == Order(bscript, bplatform)
        rest == {j \in (k + 1)..Len(order) : Runs(order[j], data, sgn, benv)}
    IN IF rest = {} THEN Len(order) + 1
       ELSE CHOOSE j \in rest : \A m \in rest : j <= m

\* the step at bpc is done and control moves on; inner: what the step
\* began inside itself
BGoto(data, sgn, inner) ==
    /\ bpc' = NextPos(bpc, data, sgn)
    /\ bstate' = IF NextPos(bpc, data, sgn) > Len(Order(bscript, bplatform))
                   THEN "returned" ELSE "running"
    /\ events' = Append(events, Cur)
    /\ began' = began \cup {Cur} \cup inner

\* the step at bpc raised: the exception leaves build
BRaise(inner) ==
    /\ bpc' = bpc
    /\ bstate' = "raised"
    /\ events' = events
    /\ began' = began \cup {Cur} \cup inner

\* a step that is one command or call: it returns or it raises
Command ==
    /\ \E ok \in BOOLEAN :
          IF ok THEN BGoto(signing_data, bsigner, {}) ELSE BRaise({})
    /\ UNCHANGED <<bscript, bplatform, benv, bstage, signing_data, bsigner,
                   archives>>
    /\ UNCHANGED outsideBuild

\* signing_data = CdSigningData(...) if the credentials are all there,
\* else None
SelectBackend ==
    /\ At("select")
    /\ LET data == IF SigningDataBuilt(bscript, bplatform, benv)
                     THEN "data" ELSE "none"
       IN signing_data' = data /\ BGoto(data, bsigner, {})
    /\ UNCHANGED <<bscript, bplatform, benv, bstage, bundle, bsigner, archives>>
    /\ UNCHANGED outsideBuild

\* signer = load_gpg_signer(): no key, or get_secretmanager_json and
\* GpgSigner(...), or GpgSigner(...) with the test key
GpgLoad ==
    /\ At("gpg_load")
    /\ LET choice == IF LoadsGpg(bscript, bplatform, benv)
                       THEN GpgChoice(benv) ELSE "none"
           secret == IF choice = "arn_key"
                       THEN {Step("gpg_secret", "arn")} ELSE {}
           construct == {Step("gpg_construct", "signer")}
       IN IF choice = "none"
            THEN bsigner' = "none" /\ BGoto(signing_data, "none", {})
            ELSE \E result \in {"secret_failed", "construct_failed", "built"} :
                    /\ result = "secret_failed" => choice = "arn_key"
                    /\ CASE result = "secret_failed" ->
                              bsigner' = bsigner /\ BRaise(secret)
                         [] result = "construct_failed" ->
                              bsigner' = bsigner
                              /\ BRaise(secret \cup construct)
                         [] OTHER ->
                              bsigner' = "built"
                              /\ BGoto(signing_data, "built",
                                       secret \cup construct)
    /\ UNCHANGED <<bscript, bplatform, benv, bstage, bundle, signing_data, archives>>
    /\ UNCHANGED outsideBuild

\* the embedded executables of the bundle after a step: cargo-tauri puts
\* the externalBin of build-config.json beside the main executable, the
\* input method app is copied into Contents/Helpers
ExternalBin == {"Contents/MacOS/q", "Contents/MacOS/qterm"}
InputMethodBin ==
    {"Contents/Helpers/CodeWhispererInputMethod.app/Contents/MacOS/fig_input_method"}
Bundled(st, had) ==
    CASE st = Step("local", "tauri_build") -> ExternalBin
      [] st = Step("local", "copy_ime") -> had \cup InputMethodBin
      [] OTHER -> had

\* cargo, pnpm build, copies into bundles and staging directories
LocalStep ==
    /\ At("local")
    /\ \E ok \in BOOLEAN :
          IF ok
            THEN /\ BGoto(signing_data, bsigner, {})
                 /\ bundle' = IF bplatform = "Darwin" /\ bscript = "desktop"
                                THEN Bundled(Cur, bundle) ELSE bundle
            ELSE BRaise({}) /\ bundle' = bundle
    /\ UNCHANGED <<bscript, bplatform, benv, bstage, signing_data, bsigner,
                   archives>>
    /\ UNCHANGED outsideBuild

\* match stage_name: anything but prod, None and gamma raises ValueError
StageCheck ==
    /\ At("stage")
    /\ IF bstage \in KnownStages
         THEN BGoto(signing_data, bsigner, {}) ELSE BRaise({})
    /\ UNCHANGED <<bscript, bplatform, benv, bstage, bundle, signing_data,
                   bsigner, archives>>
    /\ UNCHANGED outsideBuild

\* pnpm install --frozen-lockfile;
\* git clone https://github.com/withfig/themes.git
FetchStep ==
    /\ At("fetch")
    /\ Command
    /\ UNCHANGED bundle

\* cd_sign_file, sign_executable
RemoteSign ==
    /\ At("remote_sign")
    /\ Command
    /\ UNCHANGED bundle

\* apple_notarize_file, notarize_executable
Notarize ==
    /\ At("notarize")
    /\ Command
    /\ UNCHANGED bundle

\* rebundle_dmg: the dmg is unlinked before the last hdiutil convert
\* writes it again
Rebundle ==
    /\ At("rebundle")
    /\ \E result \in {"failed_before_unlink", "failed_after_unlink", "done"} :
          CASE result = "failed_before_unlink" ->
                  BRaise({}) /\ archives' = archives
            [] result = "failed_after_unlink" ->
                  BRaise({}) /\ archives' = archives \ {"dmg"}
            [] OTHER ->
                  BGoto(signing_data, bsigner, {}) /\ archives' = archives
    /\ UNCHANGED <<bscript, bplatform, benv, bstage, bundle, signing_data, bsigner>>
    /\ UNCHANGED outsideBuild

\* dmgbuild.build_dmg, shutil.make_archive, tar, zip: a final archive is
\* written into the build directory
ArchiveStep ==
    /\ At("archive")
    /\ \E ok \in BOOLEAN :
          IF ok
            THEN /\ BGoto(signing_data, bsigner, {})
                 /\ archives' = archives \cup {Cur.what}
            ELSE BRaise({}) /\ archives' = archives
    /\ UNCHANGED <<bscript, bplatform, benv, bstage, bundle, signing_data, bsigner>>
    /\ UNCHANGED outsideBuild

\* generate_sha(path), the first time and again after dpkg-sig
ShaStep ==
    /\ At("sha") \/ At("resha")
    /\ Command
    /\ UNCHANGED bundle

\* aws s3 cp of the outputs to the staging location of output_bucket
UploadOutput ==
    /\ At("upload")
    /\ Command
    /\ UNCHANGED bundle

\* signer.sign_file(path); dpkg-sig -k gpg_id -s builder deb_path
GpgSign ==
    /\ At("gpg_sign") \/ At("gpg_embed")
    /\ Command
    /\ UNCHANGED bundle

\* signer.clean()
GpgClean ==
    /\ At("gpg_clean")
    /\ BGoto(signing_data, bsigner, {})
    /\ UNCHANGED <<bscript, bplatform, benv, bstage, bundle, signing_data, bsigner, archives>>
    /\ UNCHANGED outsideBuild

BuildInit ==
    /\ SigningIdle
    /\ PoolIdle
    /\ NotaryIdle
    /\ GpgIdle
    /\ KeyIdle
    /\ StageIdle
    /\ TailIdle
    /\ bscript \in {"desktop", "chat"}
    /\ bplatform \in {"Darwin", "Linux", "Ubuntu"}
    /\ bscript = "chat" => bplatform # "Ubuntu"
    /\ bstage \in KnownStages \cup {"beta"}
    /\ bundle = {}
    /\ benv \in [EnvNames -> {"unset", "empty", "set"}]
    /\ \A n \in EnvNames :
          /\ benv[n] \in EnvValuesOf(n)
          /\ n \notin ReadBy(bscript) => benv[n] = "unset"
    \* build.py reads output_bucket in its macOS branch only and calls
    \* load_gpg_signer in its Linux functions only
    /\ bplatform # "Darwin" => benv["output"] = "unset"
    /\ (bscript = "desktop" /\ bplatform = "Darwin") =>
          \A n \in GpgNames : benv[n] = "unset"
    /\ bpc = 1
    /\ bstate = "running"
    /\ signing_data = "unset"
    /\ bsigner = "unset"
    /\ events = <<>>
    /\ began = {}
    /\ archives = {}

BuildNext ==
    \/ SelectBackend
    \/ StageCheck
    \/ GpgLoad
    \/ LocalStep
    \/ FetchStep
    \/ RemoteSign
    \/ Notarize
    \/ Rebundle
    \/ ArchiveStep
    \/ ShaStep
    \/ UploadOutput
    \/ GpgSign
    \/ GpgClean

BuildSpec == BuildInit /\ [][BuildNext]_vars

\* the kinds of network call the build has begun
NetworkCalls == UNION {NetworkOf(st) : st \in began}

\* what the build has begun of each backend
RemoteUsed == {st \in began : st.kind \in {"remote_sign", "notarize"}}
GpgUsed ==
    {st \in began :
        st.kind \in {"gpg_secret", "gpg_construct", "gpg_sign", "gpg_embed"}}

\* the archives the order of this build writes
ArchivesOf(script, platform) ==
    {Order(script, platform)[k].what : k \in
        {j \in 1..Len(Order(script, platform)) :
            Order(script, platform)[j].kind = "archive"}}

\* C23: a macOS desktop build without signing data makes no network call
\* of any kind.
C23_UnsignedBuildStaysLocal ==
    (bscript = "desktop" /\ bplatform = "Darwin" /\ signing_data = "none")
        => NetworkCalls = {}

\* the credential sets that are incomplete
RemoteIncomplete == \E n \in RemoteRequired(bscript) : benv[n] = "unset"
GpgIncomplete ==
    /\ ~Truthy(benv["arn"])
    /\ \/ ~Truthy(benv["test_id"])
       \/ benv["test_key"] = "unset"
       \/ benv["test_pass"] = "unset"

\* C24: with a remote credential missing no signing data is bound and no
\* remote step begins; with the test key incomplete and no secret ARN no
\* signer is built, no secret is fetched and no keyring is made; neither
\* selection raises, and a build that returns has written all its archives.
C24_IncompleteMeansNoBackend ==
    /\ RemoteIncomplete =>
          /\ signing_data \in {"unset", "none"}
          /\ \A st \in began :
                st.kind \notin {"remote_sign", "notarize", "rebundle"}
          /\ bstate = "raised" => Cur.kind # "select"
    /\ GpgIncomplete =>
          /\ bsigner \in {"unset", "none"}
          /\ \A st \in began :
                st.kind \notin
                    {"gpg_secret", "gpg_construct", "gpg_sign", "gpg_embed",
                     "gpg_clean"}
          /\ bstate = "raised" => Cur.kind # "gpg_load"
    /\ (RemoteIncomplete /\ GpgIncomplete /\ bstate = "returned") =>
          archives = ArchivesOf(bscript, bplatform)

C24_Witness ==
    /\ bstate = "returned"
    /\ bscript = "desktop"
    /\ bplatform = "Linux"
    /\ benv["bucket"] = "set"
    /\ benv["role"] = "unset"
    /\ benv["test_id"] = "set"
    /\ benv["test_key"] = "set"
    /\ benv["test_pass"] = "unset"
    /\ signing_data = "none"
    /\ bsigner = "none"
    /\ archives = {"tar.gz", "tar.xz", "tar.zst", "zip"}

\* C25: no build begins both a remote signing or notarization step and a
\* GPG step.
C25_OneBackendPerBuild == RemoteUsed = {} \/ GpgUsed = {}

C25_Witness ==
    /\ bstate = "returned"
    /\ bscript = "chat"
    /\ bplatform = "Darwin"
    /\ GpgChoice(benv) # "none"
    /\ signing_data = "data"
    /\ Step("remote_sign", "exe") \in RemoteUsed
    /\ Step("notarize", "exe") \in RemoteUsed

\* the steps of the signed macOS desktop build that the order is stated of
NamedSteps ==
    <<Step("remote_sign", "ime"), Step("notarize", "ime"),
      Step("local", "copy_ime"), Step("remote_sign", "app"),
      Step("notarize", "app"), Step("rebundle", "dmg"),
      Step("remote_sign", "dmg"), Step("notarize", "dmg"),
      Step("archive", "app_targz"), Step("sha", "dmg")>>

IsNamed(st) == \E k \in 1..Len(NamedSteps) : NamedSteps[k] = st

\* the named steps that have succeeded, in the order they did
NamedDone == SelectSeq(events, IsNamed)

\* C26: in a macOS desktop build with signing data the named steps succeed
\* in the stated order, and a named step begins only when all the named
\* steps before it have succeeded.
C26_SignedMacOrder ==
    (bscript = "desktop" /\ bplatform = "Darwin" /\ signing_data = "data") =>
        /\ Len(NamedDone) <= Len(NamedSteps)
        /\ NamedDone = SubSeq(NamedSteps, 1, Len(NamedDone))
        /\ \A k \in 1..Len(NamedSteps) :
              NamedSteps[k] \in began => k <= Len(NamedDone) + 1

C26_Witness ==
    /\ bscript = "desktop"
    /\ bplatform = "Darwin"
    /\ signing_data = "data"
    /\ bstate = "returned"
    /\ NamedDone = NamedSteps

\* C27: after a step has raised, none of the final archives of the build
\* is in the build directory.
C27_NoArchiveAfterFailure == bstate = "raised" => archives = {}

\* the kinds of step that build, package, sign or upload
Producing ==
    {"local", "fetch", "archive", "sha", "resha", "remote_sign", "notarize",
     "rebundle", "upload", "gpg_sign", "gpg_embed"}

\* C31: with a stage name other than prod, gamma or None the build does
\* not return, its stage check raises, and no step that builds, packages,
\* signs or uploads begins.
C31_UnknownStageIsFatal ==
    bstage \notin {"prod", "None", "gamma"} =>
        /\ bstate # "returned"
        /\ \A st \in began : st.kind \notin Producing
        /\ Step("stage", "stage_name") \in began => bstate = "raised"

C31_Witness ==
    /\ bstage = "beta"
    /\ bscript = "desktop"
    /\ signing_data = "data"
    /\ bstate = "raised"
    /\ Step("stage", "stage_name") \in began

\* C32: a Linux build of qchatbuild that returns has written tar.gz,
\* tar.xz, tar.zst and zip archives.
C32_ChatLinuxFourArchives ==
    (bscript = "chat" /\ bplatform = "Linux" /\ bstate = "returned") =>
        archives = {"tar.gz", "tar.xz", "tar.zst", "zip"}

\* embedded_requirements of app_manifest()
EmbeddedRequirements ==
    {"Contents/MacOS/q", "Contents/MacOS/qterm", "Contents/MacOS/qchat"}

\* C36: when the application bundle is handed to the signer, the
\* executables embedded in it are those the manifest names.
C36_ManifestMatchesBundle ==
    Step("remote_sign", "app") \in began => EmbeddedRequirements = bundle

\* a step that changes the bytes of an artifact, a step that writes its
\* checksum file
Modifies(st) ==
    st.kind \in {"archive", "remote_sign", "notarize", "rebundle", "gpg_embed"}
WritesSha(st, what) == st.kind \in {"sha", "resha"} /\ st.what = what

\* C37: when a build has returned, every artifact that has a checksum file
\* had it written after the last step that changed the artifact.
C37_ChecksumAfterLastChange ==
    bstate = "returned" =>
        \A m \in 1..Len(events) :
            (/\ Modifies(events[m])
             /\ \E c \in 1..Len(events) : WritesSha(events[c], events[m].what))
                => \E c \in (m + 1)..Len(events) :
                      WritesSha(events[c], events[m].what)

C37_Witness ==
    /\ bstate = "returned"
    /\ bplatform = "Ubuntu"
    /\ bsigner = "built"
    /\ Step("gpg_embed", "deb") \in began
    /\ Step("resha", "deb") \in began

\* C40: when the stage check raises, no secret has been fetched and no
\* GpgSigner has been constructed.
C40_StageErrorBeforeSideEffects ==
    (bstate = "raised" /\ Cur.kind = "stage") => GpgUsed = {}

----------------------------------------------------------------------------
(* The staging files of the signing steps: cd_sign_file of signing.py on   *)
(* an app bundle and on a dmg, sign_executable of qchatbuild.py, and       *)
(* rebundle_dmg, statement by statement, over the paths and bucket objects *)
(* they read, write and delete.  A run that raises or is killed is         *)
(* followed by a re-run of the pipeline, which builds the inputs of the    *)
(* step again and finds everything else as the aborted run left it.        *)

Flows == {"sign_app", "sign_dmg", "sign_exe", "rebundle_dmg"}

\* one statement: what it does, the paths it reads or deletes, the paths
\* it writes
Stmt(op, src, dst) == [op |-> op, src |-> src, dst |-> dst]

\* the upload of cd_sign_file: both prefixes are wiped, package.tar.gz is
\* copied to the bucket and then unlinked
UploadAndDeleteFirst ==
    <<Stmt("wipe", {"signed_obj"}, {}),
      Stmt("wipe", {"pre_signed"}, {}),
      Stmt("remove", {"package"}, {}),
      Stmt("upload", {"package"}, {"pre_signed"})>>
UploadAndDelete ==
    <<Stmt("wipe", {"signed_obj"}, {}),
      Stmt("wipe", {"pre_signed"}, {}),
      Stmt("upload", {"package"}, {"pre_signed"}),
      Stmt("remove", {"package"}, {})>>

\* the two gtar commands of cd_build_signed_package and its clean up
PackAndClean ==
    <<Stmt("tar", {"artifact_dir"}, {"artifact_gz"}),
      Stmt("tar", {"artifact_gz"}, {"package"}),
      Stmt("remove", {"artifact_gz"}, {}),
      Stmt("remove", {"artifact_dir"}, {})>>

\* the requests to the signing service and the polling loop
SignRemotely == <<Stmt("service", {"pre_signed"}, {"signed_obj"})>>

\* the statements of each step, in the order of the code
Statements(flow) ==
    CASE flow = "sign_app" ->
            <<Stmt("copytree", {"app"}, {"artifact_dir"}),
              Stmt("remove", {"app"}, {})>>
            \o PackAndClean \o UploadAndDelete \o SignRemotely
            \o <<Stmt("download", {"signed_obj"}, {"signed_zip"}),
                 Stmt("unzip", {"signed_zip"}, {"payload"}),
                 Stmt("copytree", {"payload"}, {"app"}),
                 Stmt("remove", {"signed_zip"}, {}),
                 Stmt("remove", {"payload"}, {}),
                 Stmt("verify", {"app"}, {})>>
      [] flow = "sign_dmg" ->
            <<Stmt("write", {}, {"manifest"}),
              Stmt("copy2", {"dmg"}, {"artifact_dir"}),
              Stmt("remove", {"dmg"}, {})>>
            \o PackAndClean \o UploadAndDelete \o SignRemotely
            \o <<Stmt("download", {"signed_obj"}, {"signed_zip"}),
                 Stmt("unzip", {"signed_zip"}, {"payload"}),
                 Stmt("copy2", {"payload"}, {"dmg"}),
                 Stmt("remove", {"signed_zip"}, {}),
                 Stmt("remove", {"payload"}, {}),
                 Stmt("verify", {"dmg"}, {})>>
      [] flow = "sign_exe" ->
            <<Stmt("clear", {"staging", "artifact_gz"}, {}),
              Stmt("mkdir", {}, {"staging"}),
              Stmt("copy2", {"exe"}, {"staging"}),
              Stmt("remove", {"exe"}, {}),
              Stmt("tar", {"staging"}, {"artifact_gz"}),
              Stmt("tar", {"artifact_gz"}, {"package"}),
              Stmt("wipe", {"signed_obj"}, {}),
              Stmt("wipe", {"pre_signed"}, {}),
              Stmt("upload", {"package"}, {"pre_signed"})>>
            \o SignRemotely
            \o <<Stmt("download", {"signed_obj"}, {"signed_zip"}),
                 Stmt("clear", {"payload"}, {}),
                 Stmt("unzip", {"signed_zip"}, {"payload"}),
                 Stmt("remove", {"signed_zip"}, {}),
                 Stmt("verify", {"payload"}, {})>>
      [] flow = "rebundle_dmg" ->
            <<Stmt("detach_if", {"mount"}, {}),
              Stmt("clear", {"temp_dmg"}, {}),
              Stmt("convert", {"dmg"}, {"temp_dmg"}),
              Stmt("attach", {"temp_dmg"}, {"mount"}),
              Stmt("copy2", {"app"}, {"mount"}),
              Stmt("detach", {"mount"}, {}),
              Stmt("remove", {"dmg"}, {}),
              Stmt("convert", {"temp_dmg"}, {"dmg"})>>

\* what the pipeline has built when it reaches the step
Inputs(flow) ==
    CASE flow = "sign_app" -> {"app"}
      [] flow = "sign_dmg" -> {"dmg"}
      [] flow = "sign_exe" -> {"exe"}
      [] flow = "rebundle_dmg" -> {"app", "dmg"}

\* statements that delete
DeletingNoRemove == {"clear", "wipe", "detach", "detach_if"}
Deleting == {"remove", "clear", "wipe", "detach", "detach_if"}

\* statements that never raise: rmtree(ignore_errors=True),
\* unlink(missing_ok=True)
NeverRaises == {"clear"}

\* statements that raise when what they write exists: shutil.copytree
\* without dirs_exist_ok, mkdir without exist_ok, hdiutil convert
RefusesExisting == {"copytree", "mkdir", "convert"}

\* statements that need what they name to exist
NeedsSource(st) ==
    IF st.op \in {"clear", "wipe", "detach_if"} THEN {} ELSE st.src

\* the paths after the statement has succeeded
Effect(st, fs) ==
    IF st.op \in Deleting THEN fs \ st.src ELSE fs \cup st.dst

SCur == Statements(sflow)[spc]

SAt ==
    /\ sstate = "running"
    /\ spc \in 1..Len(Statements(sflow))

SRaise(fs, hit) ==
    /\ sstate' = "raised"
    /\ sfiles' = fs
    /\ collided' = (collided \/ hit)
    /\ UNCHANGED <<sflow, spc, sattempt, sdone>>

\* the statement at spc succeeds
SDo ==
    /\ SAt
    /\ NeedsSource(SCur) \subseteq sfiles
    /\ ~(SCur.op \in RefusesExisting /\ SCur.dst \cap sfiles # {})
    /\ sfiles' = Effect(SCur, sfiles)
    /\ sdone' = sdone \cup {spc}
    /\ spc' = spc + 1
    /\ sstate' = IF spc = Len(Statements(sflow)) THEN "returned" ELSE "running"
    /\ UNCHANGED <<sflow, sattempt, collided>>
    /\ UNCHANGED outsideStage

\* the statement at spc raises because what it writes is there already
SCollide ==
    /\ SAt
    /\ SCur.op \in RefusesExisting
    /\ SCur.dst \cap sfiles # {}
    /\ SRaise(sfiles, TRUE)
    /\ UNCHANGED outsideStage

\* the statement at spc raises for a reason of its own: a command exits
\* non-zero, a copy fails; what it was writing may be there in part
SFail ==
    /\ SAt
    /\ SCur.op \notin NeverRaises
    /\ ~(SCur.op \in RefusesExisting /\ SCur.dst \cap sfiles # {})
    /\ \E partial \in BOOLEAN :
          /\ partial => SCur.dst # {} /\ NeedsSource(SCur) \subseteq sfiles
          /\ SRaise(IF partial THEN sfiles \cup SCur.dst ELSE sfiles, FALSE)
    /\ UNCHANGED outsideStage

\* the process is killed between two statements
SKill ==
    /\ SAt
    /\ sstate' = "killed"
    /\ UNCHANGED <<sflow, spc, sattempt, sfiles, sdone, collided>>
    /\ UNCHANGED outsideStage

\* the pipeline is run again from the start and reaches the step
SRerun ==
    /\ sstate \in {"raised", "killed"}
    /\ sattempt < MaxAttempts
    /\ sattempt' = sattempt + 1
    /\ spc' = 1
    /\ sstate' = "running"
    /\ sdone' = {}
    /\ sfiles' = sfiles \cup Inputs(sflow)
    /\ UNCHANGED <<sflow, collided>>
    /\ UNCHANGED outsideStage

StageInit ==
    /\ SigningIdle
    /\ PoolIdle
    /\ NotaryIdle
    /\ GpgIdle
    /\ KeyIdle
    /\ BuildIdle
    /\ TailIdle
    /\ sflow \in Flows
    /\ spc = 1
    /\ sstate = "running"
    /\ sattempt = 1
    /\ sfiles = Inputs(sflow)
    /\ sdone = {}
    /\ collided = FALSE

StageNext ==
    \/ SDo
    \/ SCollide
    \/ SFail
    \/ SKill
    \/ SRerun

StageSpec == StageInit /\ [][StageNext]_vars

\* what the steps stage and mean to remove
Transient ==
    {"package", "artifact_dir", "staging", "artifact_gz", "manifest",
     "signed_zip", "payload", "temp_dmg"}

\* C28: when a signing step has returned, none of the transient staging
\* files is left.
C28_NoStagingFileLeft == sstate = "returned" => sfiles \cap Transient = {}

\* statements that copy, upload or convert what a later statement deletes
CopyOps == {"copytree", "copy2", "upload", "convert"}

\* C29: the unlink or rmtree that follows a copy, an upload or a
\* conversion deletes the source only when that statement has completed in
\* this run, and when that statement raises the source is still there.
C29_DeleteAfterCopy ==
    [][\A k \in 1..Len(Statements(sflow)) :
          Statements(sflow)[k].op \in CopyOps =>
              /\ (SAt /\ SCur.op = "remove"
                  /\ Statements(sflow)[k].src \subseteq sfiles
                  /\ ~(Statements(sflow)[k].src \subseteq sfiles'))
                     => k \in sdone
              /\ (SAt /\ spc = k /\ sstate' = "raised"
                  /\ Statements(sflow)[k].src \subseteq sfiles)
                     => Statements(sflow)[k].src \subseteq sfiles']_vars

C29_Witness ==
    /\ sflow = "rebundle_dmg"
    /\ sstate = "raised"
    /\ spc = 8
    /\ "dmg" \notin sfiles
    /\ "temp_dmg" \in sfiles
    /\ 3 \in sdone

\* C30: in a re-run no statement raises because of what an aborted run
\* left behind.
C30_RerunNeverCollides == ~collided

----------------------------------------------------------------------------
(* The polling loop and the artifact's path, checked under Spec *)

\* C38: a status of success observed by a poll takes the workflow to the
\* download whatever the clock says, and the timeout is raised only by the
\* deadline test that follows a poll whose status was neither success nor
\* failure
C38_SuccessBeatsDeadline ==
    [][ /\ (pc = "match" /\ status = "success")
             => (pc' = "download" /\ outcome' = outcome)
        /\ (outcome' = "timeout" /\ outcome # "timeout")
             => /\ pc = "deadline"
                /\ status \in Statuses \ {"success", "failure"}
                /\ log[Len(log)] = "poll" ]_vars

\* a poll returned success at or after end_time and the download follows
C38_Witness ==
    /\ pc = "download"
    /\ "download" \notin issued
    /\ status = "success"
    /\ now >= end_time
    /\ end_time >= 0

\* C39: once cd_build_signed_package has completed, the path of the artifact
\* holds nothing or the signed result, in every later state and whatever
\* way the function ends
C39_OriginalNeverReappears ==
    (Len(log) > 0 /\ log[1] = "package")
        => artifact \in {"absent", "signed_dir", "signed_file"}

\* the function timed out after packaging and the path holds nothing
C39_Witness ==
    /\ Len(log) > 0
    /\ log[1] = "package"
    /\ outcome = "timeout"
    /\ artifact = "absent"

----------------------------------------------------------------------------
(* The polling loop alone, every status request returning a status *)

\* the workflow has sent its start request and enters the loop
PollInit ==
    /\ pc = "poll"
    /\ rpc = "attempt"
    /\ i = RangeStart
    /\ response = NoResponse
    /\ now \in Latency
    /\ end_time = EndTime(now)
    /\ status = ""
    /\ request_id = "id"
    /\ outcome = "none"
    /\ throttle = 0
    /\ reqCount = 0
    /\ n429 = 0
    /\ sleepTotal = 0
    /\ issued = {"package", "wipe_signed", "wipe_presigned", "upload",
                 "create", "start"}
    /\ log = <<"package", "wipe_signed", "wipe_presigned", "upload",
               "create", "start">>
    /\ artifact = "absent"
    /\ payload = NoPayload
    /\ startCode = 0
    /\ PoolIdle
    /\ NotaryIdle
    /\ GpgIdle
    /\ KeyIdle
    /\ BuildIdle
    /\ StageIdle
    /\ ExeIdle
    /\ polls = 0

\* status = cd_signer_status_request(request_id), the request answered
\* with a status after d seconds
StatusPoll ==
    /\ pc = "poll"
    /\ rpc = "attempt"
    /\ \E s \in Statuses, d \in Latency :
          /\ status' = s
          /\ now' = now + d
    /\ polls' = polls + 1
    /\ issued' = issued \cup {"poll"}
    /\ log' = IF log[Len(log)] = "poll" THEN log ELSE Append(log, "poll")
    /\ pc' = "match"
    /\ outcome' = outcome
    /\ LeaveRequest
    /\ UNCHANGED <<end_time, request_id, throttle, artifact, payload,
                   startCode>>
    /\ UNCHANGED outsidePoll

PollNext ==
    \/ StatusPoll
    \/ Match
    \/ Deadline

\* the interpreter runs the loop on
PollSpec == PollInit /\ [][PollNext]_vars /\ WF_vars(PollNext)

\* the polls that fit into max_duration at one poll every PollSleep seconds
PollLimit == max_duration \div PollSleep + 1

\* the loop is over: it broke out to the download or raised
LoopOver == pc \in {"download", "raised"}

\* C33: the polling loop ends, and it ends after PollLimit = 91 status
\* requests at most
C33_PollingTerminates ==
    /\ [](polls <= PollLimit)
    /\ <>LoopOver

\* the loop timed out after its 91st poll
C33_Witness ==
    /\ polls = PollLimit
    /\ outcome = "timeout"

----------------------------------------------------------------------------
(* sign_executable of qchatbuild.py from the download of signed.zip on *)

\* what an archive can unpack into Payload/EXECUTABLES_TO_SIGN: the
\* executable under its name, and another entry
Entries == {"qchat", "other"}

\* BUILD_DIR / "signed" / "Payload" / "EXECUTABLES_TO_SIGN" / name
SignedExePath == "signed/Payload/EXECUTABLES_TO_SIGN/qchat"

\* the polling loop has broken out on success; BUILD_DIR may hold the
\* signed directory and the signed.zip of an earlier run
ExeInit ==
    /\ pc = "exe_download"
    /\ rpc = "idle"
    /\ i = RangeStart
    /\ response = NoResponse
    /\ now \in Latency
    /\ end_time = max_duration
    /\ status = "success"
    /\ request_id = "id"
    /\ outcome = "none"
    /\ throttle = 0
    /\ reqCount = 0
    /\ n429 = 0
    /\ sleepTotal = 0
    /\ issued = {"package", "wipe_signed", "wipe_presigned", "upload",
                 "create", "start", "poll"}
    /\ log = <<"package", "wipe_signed", "wipe_presigned", "upload",
               "create", "start", "poll">>
    /\ artifact = "absent"
    /\ payload = NoPayload
    /\ startCode = 0
    /\ PoolIdle
    /\ NotaryIdle
    /\ GpgIdle
    /\ KeyIdle
    /\ BuildIdle
    /\ StageIdle
    /\ PollIdle
    /\ signed_dir \in {NoDir} \cup {Dir(es) : es \in SUBSET Entries}
    /\ zip_dl \in BOOLEAN
    /\ signed_exe_path = "unset"

\* run_cmd(["aws", "s3", "cp", ".../signed/signed.zip", zip_dl_path])
ExeDownload ==
    /\ pc = "exe_download"
    /\ issued' = issued \cup {"download"}
    /\ \E ok \in BOOLEAN, d \in Latency :
          /\ now' = now + d
          /\ IF ok
               THEN /\ Goto("exe_clear")
                    /\ zip_dl' = TRUE
                    /\ log' = Append(log, "download")
               ELSE /\ Raise("command_failed")
                    /\ UNCHANGED <<zip_dl, log>>
    /\ UNCHANGED <<end_time, status, request_id, throttle, artifact, payload,
                   startCode, signed_dir, signed_exe_path>>
    /\ UNCHANGED outsideExe

\* shutil.rmtree(payload_path, ignore_errors=True)
ExeClear ==
    /\ pc = "exe_clear"
    /\ signed_dir' = NoDir
    /\ Goto("exe_unzip")
    /\ UNCHANGED <<now, end_time, status, request_id, throttle, issued, log,
                   artifact, payload, startCode, zip_dl, signed_exe_path>>
    /\ UNCHANGED outsideExe

\* run_cmd(["unzip", zip_dl_path, "-d", payload_path])
ExeUnzip ==
    /\ pc = "exe_unzip"
    /\ issued' = issued \cup {"unzip"}
    /\ \E ok \in BOOLEAN, d \in Latency, c \in SUBSET Entries :
          /\ now' = now + d
          /\ IF ok
               THEN /\ Goto("exe_unlink")
                    /\ signed_dir' = Dir(c)
                    /\ log' = Append(log, "unzip")
               ELSE /\ Raise("command_failed")
                    /\ UNCHANGED <<signed_dir, log>>
    /\ UNCHANGED <<end_time, status, request_id, throttle, artifact, payload,
                   startCode, zip_dl, signed_exe_path>>
    /\ UNCHANGED outsideExe

\* zip_dl_path.unlink()
ExeUnlink ==
    /\ pc = "exe_unlink"
    /\ zip_dl' = FALSE
    /\ Goto("exe_verify")
    /\ UNCHANGED <<now, end_time, status, request_id, throttle, issued, log,
                   artifact, payload, startCode, signed_dir, signed_exe_path>>
    /\ UNCHANGED outsideExe

\* run_cmd(["codesign", "--verify", "--verbose=4", signed_exe_path]) and
\* return signed_exe_path; codesign exits non-zero when the path does not
\* exist
ExeVerify ==
    /\ pc = "exe_verify"
    /\ issued' = issued \cup {"verify"}
    /\ \E ok \in BOOLEAN, d \in Latency :
          /\ now' = now + d
          /\ IF ok /\ "qchat" \in signed_dir.entries
               THEN /\ Goto("done")
                    /\ signed_exe_path' = SignedExePath
                    /\ log' = Append(log, "verify")
               ELSE /\ Raise("command_failed")
                    /\ UNCHANGED <<signed_exe_path, log>>
    /\ UNCHANGED <<end_time, status, request_id, throttle, artifact, payload,
                   startCode, signed_dir, zip_dl>>
    /\ UNCHANGED outsideExe

ExeNext ==
    \/ ExeDownload
    \/ ExeClear
    \/ ExeUnzip
    \/ ExeUnlink
    \/ ExeVerify

ExeSpec == ExeInit /\ [][ExeNext]_vars

\* C34: sign_executable returns a signed path only when the unpacked
\* payload directory holds exactly one entry
C34_ReturnsOnlyWithOneEntry ==
    signed_exe_path # "unset"
        => (signed_dir.exists /\ Cardinality(signed_dir.entries) = 1)

----------------------------------------------------------------------------
(* Where a signing step leaves the signed payload, checked under StageSpec *)

\* the steps that send an artifact to the signing service
SigningFlows == {"sign_app", "sign_dmg", "sign_exe"}

\* C35 as stated: when a signing step has returned, the path of the
\* artifact it was given holds the signed payload, for cd_sign_file and for
\* sign_executable
C35_SignedAtOriginalPath ==
    (sstate = "returned" /\ sflow \in SigningFlows)
        => Inputs(sflow) \subseteq sfiles

\* C35: when cd_sign_file has returned the path of the artifact it was given
\* holds the signed payload; when sign_executable has returned the signed
\* executable lies in the unpacked directory under BUILD_DIR/signed and the
\* path it was given holds nothing
C35_SignedWhereReturned ==
    sstate = "returned" =>
        /\ sflow = "sign_app" => "app" \in sfiles
        /\ sflow = "sign_dmg" => "dmg" \in sfiles
        /\ sflow = "sign_exe" => ("payload" \in sfiles /\ "exe" \notin sfiles)

\* sign_executable has returned
C35_Witness ==
    /\ sstate = "returned"
    /\ sflow = "sign_exe"
    /\ "payload" \in sfiles
    /\ "exe" \notin sfiles

====
